---- MODULE Spec2Model ----
(***************************************************************************)
(* State-machine model of dbus-aggregate-smartshunts: the discovery state  *)
(* machine (_find_smartshunts), the aggregation pass (_update), the        *)
(* per-device and global switches, the reactive trigger and the startup    *)
(* sequence of main().  One action per callback; a callback that calls     *)
(* another (a scan calls _update) is one action.                           *)
(***************************************************************************)
EXTENDS Integers, Sequences, FiniteSets, Bags, TLC

(***************************************************************************)
(* Bounds and configuration                                                *)
(***************************************************************************)
\* config['UPDATE_INTERVAL_FIND_DEVICES'] and config['MAX_UPDATE_INTERVAL_FIND_DEVICES']
InitialInterval == 20
MaxInterval == 50
\* config['SEARCH_TRIALS'], config['READ_TRIALS'], config['LOG_PERIOD']
SEARCH_TRIALS == 3
READ_TRIALS == 2
LOG_PERIOD == 300
\* seconds a device set must stay unchanged before the interval doubles
StableWindow == 30
\* main(): max_wait and the period of the synchronous startup scans
max_wait == 30
StartupScanEvery == 5
\* the model follows the program through at most this many inputs from its
\* environment: a bus service appearing or vanishing, a value notification,
\* a write to a switch
MaxEvents == 2

\* Python's None for numbers: an optional value is <<>> or <<v>>
None == <<>>
Some(v) == <<v>>
IsNone(o) == o = <<>>
Val(o) == o[1]
\* _devices_stable_since = None
NoAge == -1

\* Bus names of the physical SmartShunt services, as their dot-separated parts
Svc1 == <<"com", "victronenergy", "battery", "ttyS5">>
Svc2 == <<"com", "victronenergy", "battery", "ttyS6">>
Services == {Svc1, Svc2}
\* order in which list_names() returns them
BusOrder == <<Svc1, Svc2>>

(***************************************************************************)
(* Numbers.  Python's floats are modelled as exact rationals in lowest     *)
(* terms, [n |-> numerator, d |-> denominator > 0]; rounding is not        *)
(* modelled.  Quantities the model only ever adds stay integers.           *)
(***************************************************************************)
Abs(i) == IF i < 0 THEN -i ELSE i

RECURSIVE GCD(_, _)
GCD(a, b) == IF b = 0 THEN a ELSE GCD(b, a % b)

Q(n, d) ==
    LET g == GCD(Abs(n), Abs(d))
        sgn == IF d < 0 THEN -1 ELSE 1
    IN [n |-> (sgn * n) \div g, d |-> (sgn * d) \div g]

QAdd(a, b) == Q(a.n * b.d + b.n * a.d, a.d * b.d)
QSub(a, b) == Q(a.n * b.d - b.n * a.d, a.d * b.d)
QMul(a, b) == Q(a.n * b.n, a.d * b.d)
QDiv(a, b) == Q(a.n * b.d, a.d * b.n)
QLess(a, b) == a.n * b.d < b.n * a.d
QAbs(a) == [n |-> Abs(a.n), d |-> a.d]
\* int(x) for x >= 0
QInt(a) == a.n \div a.d

\* min(), max(), sum() and sum()/len() of a non-empty list of floats
RECURSIVE QMin(_)
QMin(q) ==
    IF Len(q) = 1 THEN q[1]
    ELSE LET m == QMin(Tail(q)) IN IF QLess(m, q[1]) THEN m ELSE q[1]

RECURSIVE QMax(_)
QMax(q) ==
    IF Len(q) = 1 THEN q[1]
    ELSE LET m == QMax(Tail(q)) IN IF QLess(q[1], m) THEN m ELSE q[1]

RECURSIVE QSum(_)
QSum(q) == IF q = <<>> THEN Q(0, 1) ELSE QAdd(q[1], QSum(Tail(q)))

QMean(q) == QDiv(QSum(q), Q(Len(q), 1))

\* max() and sum() of a list of integers
RECURSIVE MaxOf(_)
MaxOf(q) ==
    IF Len(q) = 1 THEN q[1]
    ELSE LET m == MaxOf(Tail(q)) IN IF q[1] >= m THEN q[1] ELSE m

RECURSIVE MinOf(_)
MinOf(q) ==
    IF Len(q) = 1 THEN q[1]
    ELSE LET m == MinOf(Tail(q)) IN IF q[1] <= m THEN q[1] ELSE m

RECURSIVE SumOf(_)
SumOf(q) == IF q = <<>> THEN 0 ELSE q[1] + SumOf(Tail(q))

(***************************************************************************)
(* The readings of the physical devices                                    *)
(***************************************************************************)
\* the monitored paths a pass reads
ReadPaths ==
    {"Voltage", "Current", "Power", "Soc", "ConsumedAmphours", "Temperature",
     "Alarm", "LowVoltage", "HighVoltage", "LowSoc", "HighTemperature",
     "LowTemperature", "HexChecksumErrors", "TimeToGo"}

\* the /History/* paths a pass reads, and the /VEDirect/* counters
HistoryPaths ==
    {"ChargeCycles", "TotalAhDrawn", "MinimumVoltage", "MaximumVoltage",
     "TimeSinceLastFullCharge", "AutomaticSyncs", "LowVoltageAlarms",
     "HighVoltageAlarms", "LastDischarge", "AverageDischarge",
     "ChargedEnergy", "DischargedEnergy", "FullDischarges",
     "DeepestDischarge", "MinimumStarterVoltage", "MaximumStarterVoltage"}
ErrorCounters ==
    {"HexChecksumErrors", "HexInvalidCharacterErrors", "HexUnfinishedErrors",
     "TextChecksumErrors", "TextParseError", "TextUnfinishedErrors"}

\* what a device can show on them (voltages in 0.1 V): nothing at all; the
\* history of an older battery without starter input, whose starter
\* voltages read 0; the histories of two newer ones with a starter battery
HistoryUnreported ==
    [p \in HistoryPaths \cup (ErrorCounters \ {"HexChecksumErrors"}) |-> <<>>]
HistoryOlder ==
    [ChargeCycles |-> <<12>>, TotalAhDrawn |-> <<-5000>>,
     MinimumVoltage |-> <<110>>, MaximumVoltage |-> <<146>>,
     TimeSinceLastFullCharge |-> <<3600>>, AutomaticSyncs |-> <<7>>,
     LowVoltageAlarms |-> <<2>>, HighVoltageAlarms |-> <<0>>,
     LastDischarge |-> <<-40>>, AverageDischarge |-> <<-55>>,
     ChargedEnergy |-> <<300>>, DischargedEnergy |-> <<280>>,
     FullDischarges |-> <<1>>, DeepestDischarge |-> <<-120>>,
     MinimumStarterVoltage |-> <<0>>, MaximumStarterVoltage |-> <<0>>,
     HexInvalidCharacterErrors |-> <<0>>, HexUnfinishedErrors |-> <<2>>,
     TextChecksumErrors |-> <<>>, TextParseError |-> <<3>>,
     TextUnfinishedErrors |-> <<1>>]
HistoryNewer ==
    [ChargeCycles |-> <<4>>, TotalAhDrawn |-> <<-900>>,
     MinimumVoltage |-> <<118>>, MaximumVoltage |-> <<144>>,
     TimeSinceLastFullCharge |-> <<86400>>, AutomaticSyncs |-> <<9>>,
     LowVoltageAlarms |-> <<1>>, HighVoltageAlarms |-> <<1>>,
     LastDischarge |-> <<-25>>, AverageDischarge |-> <<-30>>,
     ChargedEnergy |-> <<60>>, DischargedEnergy |-> <<50>>,
     FullDischarges |-> <<0>>, DeepestDischarge |-> <<-80>>,
     MinimumStarterVoltage |-> <<118>>, MaximumStarterVoltage |-> <<141>>,
     HexInvalidCharacterErrors |-> <<1>>, HexUnfinishedErrors |-> <<0>>,
     TextChecksumErrors |-> <<4>>, TextParseError |-> <<0>>,
     TextUnfinishedErrors |-> <<0>>]
HistoryNewest ==
    [HistoryNewer EXCEPT !.ChargeCycles = <<1>>, !.MinimumVoltage = <<121>>,
                         !.DeepestDischarge = <<-10>>,
                         !.MinimumStarterVoltage = <<121>>,
                         !.MaximumStarterVoltage = <<139>>,
                         !.TimeSinceLastFullCharge = <<>>]
HistoryProfiles ==
    {HistoryUnreported, HistoryOlder, HistoryNewer, HistoryNewest}

\* /Dc/0/Current of each device while it is present; a device that is gone
\* shows None on every path
CurrentOf(s) == IF s = Svc1 THEN Some(-5) ELSE Some(-3)
\* /VEDirect/HexChecksumErrors of each device while it is present
HexChecksumErrorsOf(s) == IF s = Svc1 THEN Some(1) ELSE Some(2)
\* /Dc/0/Voltage, /Soc and /Dc/0/Temperature of each device
VoltageOf(s) == IF s = Svc1 THEN Some(Q(132, 10)) ELSE Some(Q(130, 10))
SocOf(s) == IF s = Svc1 THEN Some(Q(80, 1)) ELSE Some(Q(70, 1))
TemperatureOf(s) == IF s = Svc1 THEN Some(Q(25, 1)) ELSE Some(Q(26, 1))

\* two devices discharging at rest, no alarm raised
Scenario ==
    [s \in Services |->
        [Voltage |-> VoltageOf(s), Current |-> CurrentOf(s),
         Power |-> IF s = Svc1 THEN Some(-66) ELSE Some(-39),
         Soc |-> SocOf(s), ConsumedAmphours |-> IF s = Svc1 THEN Some(-20) ELSE Some(-30),
         Temperature |-> TemperatureOf(s),
         Alarm |-> Some(0), LowVoltage |-> Some(0), HighVoltage |-> Some(0),
         LowSoc |-> Some(0), HighTemperature |-> Some(0),
         LowTemperature |-> Some(0),
         HexChecksumErrors |-> HexChecksumErrorsOf(s),
         TimeToGo |-> Some(36000)]
        @@ (IF s = Svc1 THEN HistoryOlder ELSE HistoryNewer)]

\* the paths _update publishes, in the order it writes them
PublishOrder ==
    <<"Voltage", "Current", "Power", "Temperature", "Soc", "ConsumedAmphours",
      "TimeToGo", "Alarm", "LowVoltage", "HighVoltage", "LowSoc",
      "HighTemperature", "LowTemperature",
      "ChargeCycles", "TotalAhDrawn", "MinimumVoltage", "MaximumVoltage",
      "TimeSinceLastFullCharge", "AutomaticSyncs", "LowVoltageAlarms",
      "HighVoltageAlarms", "LastDischarge", "AverageDischarge",
      "ChargedEnergy", "DischargedEnergy", "FullDischarges",
      "DeepestDischarge", "MinimumStarterVoltage", "MaximumStarterVoltage",
      "HexChecksumErrors", "HexInvalidCharacterErrors", "HexUnfinishedErrors",
      "TextChecksumErrors", "TextParseError", "TextUnfinishedErrors">>
\* a trigger list that also holds the alarm flag
TriggersAndAlarm ==
    {"/Dc/0/Voltage", "/Dc/0/Current", "/Dc/0/Power", "/Soc",
     "/ConsumedAmphours", "/TimeToGo", "/Dc/0/Temperature", "/Alarms/Alarm"}

\* the monitored paths whose change triggers a pass
TriggerPaths ==
    {"/Dc/0/Voltage", "/Dc/0/Current", "/Dc/0/Power", "/Soc",
     "/ConsumedAmphours", "/TimeToGo", "/Dc/0/Temperature"}

\* the temperature thresholds and the range of their sliders
DEFAULT_TEMP_LOW == Q(10, 1)
DEFAULT_TEMP_HIGH == Q(81, 2)
TEMP_MIN == -50
TEMP_MAX == 100

VARIABLES
    present,                      \* the bus: the SmartShunt services present
    reading,                      \* the values the present services show
    savedDiscovery, savedEnabled, \* com.victronenergy.settings (persisted)
    savedTempLow, savedTempHigh,
    pc, wait_count, exitReason,   \* position of main() / the process
    total_capacity,               \* config['TOTAL_CAPACITY']
    temp_low, temp_high,          \* relay_temp_low/high Measurement
    dimming_low, dimming_high,    \* relay_temp_low/high Dimming
    shunts, searchTrials, readTrials, updating,
    device_search_interval, stable_age, last_device_count,
    discovery_enabled, shunt_switches, next_relay_id,
    device_paths, devRecord, published, settings_loaded,
    timers, logTimers, idle,      \* GLib sources
    lastOp, lastPass, readLog, found_shunts,  \* what the last callback did
    armed,                        \* period of the scan timer it left registered
    ret,                          \* how it ended
    lastFail,                     \* where its pass failed
    lastCaps,                     \* the capacity registers main() read
    failed_passes,                \* passes aborted by a read failure in a row
    ttg_divergence_logged,        \* self._ttg_divergence_logged
    ttg_warnings,                 \* divergence warnings logged so far
    zero_scans,                   \* enabled scans of this process that found nothing
    ShowUIControl,                \* /SwitchableOutput/*/Settings/ShowUIControl
    events                        \* inputs from the environment so far

vars == <<present, reading, savedDiscovery, savedEnabled,
          savedTempLow, savedTempHigh, pc, wait_count, exitReason,
          total_capacity, temp_low, temp_high, dimming_low, dimming_high,
          shunts, searchTrials, readTrials, updating,
          device_search_interval, stable_age, last_device_count,
          discovery_enabled, shunt_switches, next_relay_id,
          device_paths, devRecord, published, settings_loaded,
          timers, logTimers, idle, lastOp, lastPass, readLog, found_shunts,
          armed, ret, lastFail, lastCaps, failed_passes,
          ttg_divergence_logged, ttg_warnings, zero_scans, ShowUIControl,
          events>>

(***************************************************************************)
(* The program state as one record, so that a callback that calls another  *)
(* can be composed.  ret is the callback's outcome: "stop" (return False), *)
(* "repeat" (return True), "raise" (an exception leaves the callback) or   *)
(* "exit" (sys.exit).                                                      *)
(***************************************************************************)
\* __init__: the discovery control and the two threshold controls are created
\* shown; relay holds the per-device controls relay_1, relay_2, ... in order
ControlsCreated ==
    [relay_discovery |-> 1, relay_temp_low |-> 1, relay_temp_high |-> 1,
     relay |-> <<>>]

Prog ==
    [savedDiscovery |-> savedDiscovery, savedEnabled |-> savedEnabled,
     savedTempLow |-> savedTempLow, savedTempHigh |-> savedTempHigh,
     exitReason |-> exitReason, total_capacity |-> total_capacity,
     temp_low |-> temp_low, temp_high |-> temp_high,
     dimming_low |-> dimming_low, dimming_high |-> dimming_high,
     shunts |-> shunts, searchTrials |-> searchTrials, readTrials |-> readTrials,
     updating |-> updating, device_search_interval |-> device_search_interval,
     stable_age |-> stable_age, last_device_count |-> last_device_count,
     discovery_enabled |-> discovery_enabled, shunt_switches |-> shunt_switches,
     next_relay_id |-> next_relay_id, device_paths |-> device_paths,
     devRecord |-> devRecord, published |-> published,
     settings_loaded |-> settings_loaded,
     timers |-> timers, logTimers |-> logTimers, idle |-> idle,
     lastOp |-> "other", lastPass |-> "none", readLog |-> {},
     found_shunts |-> <<>>, armed |-> 0, ret |-> "stop", lastFail |-> "none",
     lastCaps |-> <<>>, failed_passes |-> failed_passes,
     ttg_divergence_logged |-> ttg_divergence_logged,
     ttg_warnings |-> ttg_warnings, zero_scans |-> zero_scans,
     ShowUIControl |-> ShowUIControl,
     events |-> events]

Commit(r) ==
    /\ savedDiscovery' = r.savedDiscovery
    /\ savedEnabled' = r.savedEnabled
    /\ savedTempLow' = r.savedTempLow
    /\ savedTempHigh' = r.savedTempHigh
    /\ exitReason' = r.exitReason
    /\ total_capacity' = r.total_capacity
    /\ temp_low' = r.temp_low
    /\ temp_high' = r.temp_high
    /\ dimming_low' = r.dimming_low
    /\ dimming_high' = r.dimming_high
    /\ shunts' = r.shunts
    /\ searchTrials' = r.searchTrials
    /\ readTrials' = r.readTrials
    /\ updating' = r.updating
    /\ device_search_interval' = r.device_search_interval
    /\ stable_age' = r.stable_age
    /\ last_device_count' = r.last_device_count
    /\ discovery_enabled' = r.discovery_enabled
    /\ shunt_switches' = r.shunt_switches
    /\ next_relay_id' = r.next_relay_id
    /\ device_paths' = r.device_paths
    /\ devRecord' = r.devRecord
    /\ published' = r.published
    /\ settings_loaded' = r.settings_loaded
    /\ timers' = r.timers
    /\ logTimers' = r.logTimers
    /\ idle' = r.idle
    /\ lastOp' = r.lastOp
    /\ lastPass' = r.lastPass
    /\ readLog' = r.readLog
    /\ found_shunts' = r.found_shunts
    /\ armed' = r.armed
    /\ ret' = r.ret
    /\ lastFail' = r.lastFail
    /\ lastCaps' = r.lastCaps
    /\ failed_passes' = r.failed_passes
    /\ ttg_divergence_logged' = r.ttg_divergence_logged
    /\ ttg_warnings' = r.ttg_warnings
    /\ zero_scans' = r.zero_scans
    /\ ShowUIControl' = r.ShowUIControl
    /\ events' = r.events

Min(a, b) == IF a <= b THEN a ELSE b

\* the bound of the model
WithinCaps(r) == r.events <= MaxEvents

\* one more input from the environment
Event(r) == [r EXCEPT !.events = @ + 1]

(***************************************************************************)
(* The bus as the monitor shows it                                         *)
(***************************************************************************)
\* DbusMonitor.get_value: None for a service that is gone or a path without value
GetValue(s, path) == IF s \notin present THEN None ELSE reading[s][path]

\* /DeviceInstance of each service
DeviceInstance(s) ==
    IF s = Svc1 THEN 277 ELSE IF s = Svc2 THEN 278 ELSE 279
Instances == {DeviceInstance(s) : s \in Services}

Range(q) == {q[i] : i \in 1..Len(q)}

\* other com.victronenergy.battery services a bus can hold: the aggregate
\* this program publishes, another virtual aggregate that shows a SmartShunt
\* product name, and a battery that is no SmartShunt
SvcSelf == <<"com", "victronenergy", "battery", "aggregateshunts">>
SvcVirtual == <<"com", "victronenergy", "battery", "virtualshunt">>
SvcBms == <<"com", "victronenergy", "battery", "socketcan_can0">>
AllServices == Services \cup {SvcSelf, SvcVirtual, SvcBms}
AllBusOrder == BusOrder \o <<SvcSelf, SvcVirtual, SvcBms>>

\* what a service publishes on /ProductName and on /Devices/0/Virtual
ProductNameOf(s) ==
    IF s = SvcBms THEN "Lynx Smart BMS" ELSE "SmartShunt 500A/50mV"
VirtualOf(s) == IF s \in {SvcSelf, SvcVirtual} THEN Some(1) ELSE None
BusValue(s, path) ==
    IF path = "/ProductName" THEN Some(ProductNameOf(s))
    ELSE IF path = "/Devices/0/Virtual" THEN VirtualOf(s)
    ELSE None

\* the DbusMonitor: the paths of its monitor list and the service it ignores
MonitoredPaths ==
    {"/ProductName", "/ProductId", "/CustomName", "/Serial", "/DeviceInstance",
     "/FirmwareVersion", "/HardwareVersion", "/Dc/0/Voltage", "/Dc/0/Current",
     "/Dc/0/Power", "/Dc/0/Temperature", "/Soc", "/ConsumedAmphours",
     "/TimeToGo", "/Connected", "/Alarms/Alarm", "/Alarms/LowVoltage",
     "/Alarms/HighVoltage", "/Alarms/LowSoc", "/Alarms/HighTemperature",
     "/Alarms/LowTemperature",
     "/History/ChargeCycles", "/History/TotalAhDrawn",
     "/History/MinimumVoltage", "/History/MaximumVoltage",
     "/History/TimeSinceLastFullCharge", "/History/AutomaticSyncs",
     "/History/LowVoltageAlarms", "/History/HighVoltageAlarms",
     "/History/LastDischarge", "/History/AverageDischarge",
     "/History/ChargedEnergy", "/History/DischargedEnergy",
     "/History/FullDischarges", "/History/DeepestDischarge",
     "/History/MinimumStarterVoltage", "/History/MaximumStarterVoltage",
     "/Relay/0/State", "/VEDirect/HexChecksumErrors",
     "/VEDirect/HexInvalidCharacterErrors", "/VEDirect/HexUnfinishedErrors",
     "/VEDirect/TextChecksumErrors", "/VEDirect/TextParseError",
     "/VEDirect/TextUnfinishedErrors"}
ignoreServices == {SvcSelf}

\* self._dbusmon.get_value(service, path): None for a service that is gone
\* or ignored and for a path that is not monitored
MonitorValue(s, path) ==
    IF s \notin present \/ s \in ignoreServices \/ path \notin MonitoredPaths
    THEN None
    ELSE BusValue(s, path)

\* "is_virtual = self._dbusmon.get_value(service, '/Devices/0/Virtual');
\* if is_virtual == 1: continue"
IsVirtual(s) == MonitorValue(s, "/Devices/0/Virtual") = Some(1)

\* "if product_name and 'SmartShunt' in product_name"
IsSmartShunt(s) ==
    LET product_name == MonitorValue(s, "/ProductName")
    IN ~IsNone(product_name) /\ Val(product_name) = "SmartShunt 500A/50mV"

\* the enumeration of _find_smartshunts: every battery service that is a
\* SmartShunt, in bus order.  (An enumeration that raises part-way keeps the
\* services found so far: the found list of a bus without the others.)
FoundShunts ==
    SelectSeq(AllBusOrder, LAMBDA s : IsSmartShunt(s) /\ ~IsVirtual(s))

(***************************************************************************)
(* Persisted per-device setting                                            *)
(***************************************************************************)
\* a key that leaves out the last part of the name
SharedKey(s) == <<s[3]>>

\* "com.victronenergy.battery.ttyS6" -> "battery_ttyS6" (parts joined by "_")
get_shunt_setting_key(s) == IF Len(s) >= 4 THEN <<s[3], s[4]>> ELSE s
SettingKeys == {get_shunt_setting_key(s) : s \in Services}

\* None when the setting does not exist yet
get_shunt_enabled_setting(r, s) == r.savedEnabled[get_shunt_setting_key(s)]

\* a save that also takes a device switched off out of the total capacity
SaveAndRecount(r, s, enabled) ==
    [r EXCEPT !.savedEnabled[get_shunt_setting_key(s)] = Some(enabled),
              !.total_capacity = IF enabled THEN @ ELSE @ \div 2]

set_shunt_enabled_setting(r, s, enabled) ==
    [r EXCEPT !.savedEnabled[get_shunt_setting_key(s)] = Some(enabled)]

(***************************************************************************)
(* _update: one aggregation pass                                           *)
(***************************************************************************)
\* a pass that skips no device
SwitchIgnored(sw, s) == FALSE

\* "if service in self.shunt_switches: if not ...get('enabled', True): continue"
SwitchDisabled(sw, s) == s \in DOMAIN sw /\ ~sw[s].enabled

\* a first loop that reads every device of the active set
ReadAllShunts(shs, sw) == shs

\* first loop: the services whose values are read
ReadShunts(shs, sw) == SelectSeq(shs, LAMBDA s : ~SwitchDisabled(sw, s))

\* first loop: total_current += current, for every value that is not None
RECURSIVE TotalCurrent(_, _)
TotalCurrent(shs, sw) ==
    IF shs = <<>> THEN 0
    ELSE LET s == Head(shs)
             rest == TotalCurrent(Tail(shs), sw)
             current == GetValue(s, "Current")
         IN IF SwitchDisabled(sw, s) THEN rest
            ELSE IF IsNone(current) THEN rest
            ELSE Val(current) + rest

\* second loop: sum of (get_value(...) or 0) over the shunts not switched off
RECURSIVE VedirectHexChecksum(_, _)
VedirectHexChecksum(shs, sw) ==
    IF shs = <<>> THEN 0
    ELSE LET s == Head(shs)
             rest == VedirectHexChecksum(Tail(shs), sw)
             e == GetValue(s, "HexChecksumErrors")
         IN IF SwitchDisabled(sw, s) THEN rest
            ELSE (IF IsNone(e) THEN 0 ELSE Val(e)) + rest

\* first loop: the values of one path that are not None, in loop order
RECURSIVE Readings(_, _, _)
Readings(shs, sw, path) ==
    IF shs = <<>> THEN <<>>
    ELSE LET s == Head(shs)
             rest == Readings(Tail(shs), sw, path)
             v == GetValue(s, path)
         IN IF SwitchDisabled(sw, s) THEN rest
            ELSE IF IsNone(v) THEN rest
            ELSE <<Val(v)>> \o rest

\* an SoC published whatever the devices report
FixedSoc(soc_readings) == Q(50, 1)

\* "sum(soc_readings) / len(soc_readings) if soc_readings else 50.0"
avg_soc(soc_readings) ==
    IF soc_readings # <<>> THEN QMean(soc_readings) ELSE Q(50, 1)

\* any(list) of alarm flags
AnyOf(list) == \E i \in 1..Len(list) : list[i] # 0

\* an alarm that is never raised
NoAlarm(list) == 0

\* "max(alarm_list) if alarm_list else 0"
AlarmOf(list) == IF list # <<>> THEN MaxOf(list) ELSE 0

nominal_voltage == Q(13, 1)

\* a selector that always prefers the minimum
LowAlways(low_deviation, high_deviation) == TRUE

\* "min_voltage if low_deviation > high_deviation else max_voltage"
LowDeviatesMore(low_deviation, high_deviation) ==
    QLess(high_deviation, low_deviation)

\* smart voltage selection
reported_voltage(voltage_readings, alarm_low_voltage_list, alarm_high_voltage_list) ==
    IF voltage_readings # <<>> THEN
        LET min_voltage == QMin(voltage_readings)
            max_voltage == QMax(voltage_readings)
            avg_voltage == QMean(voltage_readings)
            low_voltage_alarm_active == AnyOf(alarm_low_voltage_list)
            high_voltage_alarm_active == AnyOf(alarm_high_voltage_list)
            low_deviation == QAbs(QSub(min_voltage, nominal_voltage))
            high_deviation == QAbs(QSub(max_voltage, nominal_voltage))
        IN IF low_voltage_alarm_active /\ high_voltage_alarm_active
           THEN (IF LowDeviatesMore(low_deviation, high_deviation)
                 THEN min_voltage ELSE max_voltage)
           ELSE IF low_voltage_alarm_active THEN min_voltage
           ELSE IF high_voltage_alarm_active THEN max_voltage
           ELSE avg_voltage
    ELSE Q(0, 1)

\* a selector that prefers the farther reading
LowFarther(low_severity, high_severity) == QLess(high_severity, low_severity)

\* "min_temp if low_severity < high_severity else max_temp"
LowCloser(low_severity, high_severity) == QLess(low_severity, high_severity)

\* smart temperature selection; LOW_TEMP and HIGH_TEMP are the Measurement
\* values of the two threshold switches
reported_temperature(temperature_readings, LOW_TEMP, HIGH_TEMP) ==
    IF temperature_readings # <<>> THEN
        LET min_temp == QMin(temperature_readings)
            max_temp == QMax(temperature_readings)
            avg_temperature == QMean(temperature_readings)
            low_temp_alert == QLess(min_temp, LOW_TEMP)
            high_temp_alert == QLess(HIGH_TEMP, max_temp)
            low_severity == QAbs(QSub(min_temp, Q(0, 1)))
            high_severity == QAbs(QSub(max_temp, Q(45, 1)))
        IN IF low_temp_alert /\ high_temp_alert
           THEN (IF LowCloser(low_severity, high_severity)
                 THEN Some(min_temp) ELSE Some(max_temp))
           ELSE IF low_temp_alert THEN Some(min_temp)
           ELSE IF high_temp_alert THEN Some(max_temp)
           ELSE Some(avg_temperature)
    ELSE None

\* a remaining capacity that ignores the state of charge
FullCapacity(total, soc) == Q(total, 1)

\* "capacity = self.config['TOTAL_CAPACITY'] * soc / 100"
RemainingCapacity(total, soc) == QDiv(QMul(Q(total, 1), soc), Q(100, 1))

\* "-3600 * capacity / total_current" while discharging, else None
time_to_go(total_current, capacity) ==
    IF total_current < 0
    THEN (IF total_current # 0
          THEN Some(QDiv(QMul(Q(-3600, 1), capacity), Q(total_current, 1)))
          ELSE None)
    ELSE None

\* second loop: sum of (get_value(...) or 0) for one of the error counters
RECURSIVE VedirectCounter(_, _, _)
VedirectCounter(shs, sw, path) ==
    IF shs = <<>> THEN 0
    ELSE LET s == Head(shs)
             rest == VedirectCounter(Tail(shs), sw, path)
             e == GetValue(s, path)
         IN IF SwitchDisabled(sw, s) THEN rest
            ELSE (IF IsNone(e) THEN 0 ELSE Val(e)) + rest

\* starter voltages that are read whatever their value
AnyReadings(xs) == xs

\* "if hist_min_starter is not None and hist_min_starter > 0: ...append(...)"
StarterReadings(xs) == SelectSeq(xs, LAMBDA v : v > 0)

\* how the pass combines the list of each history path:
\*   agg_x = max(xs) if xs else 0        agg_x = sum(xs) if xs else 0
\*   agg_x = min(xs) if xs else None     agg_x = max(xs) if xs else None
\*   agg_x = min(xs) if xs else 0        agg_x = sum(xs) / len(xs) if xs else 0
\*   agg_x = min(xs) if xs else []       agg_x = max(xs) if xs else []
\* with the lists of the starter voltages holding the readings above 0 only;
\* the bus shows None and [] alike as no value
HistoryRule ==
    [ChargeCycles |-> "max else 0", FullDischarges |-> "max else 0",
     TotalAhDrawn |-> "sum else 0", ChargedEnergy |-> "sum else 0",
     DischargedEnergy |-> "sum else 0", LastDischarge |-> "sum else 0",
     MinimumVoltage |-> "min else None", MaximumVoltage |-> "max else None",
     TimeSinceLastFullCharge |-> "max else None",
     AutomaticSyncs |-> "max else 0",
     LowVoltageAlarms |-> "sum else 0", HighVoltageAlarms |-> "sum else 0",
     DeepestDischarge |-> "min else 0", AverageDischarge |-> "mean else 0",
     MinimumStarterVoltage |-> "starter min else []",
     MaximumStarterVoltage |-> "starter max else []"]

Combine(rule, xs) ==
    LET ys == IF rule \in {"starter min else []", "starter max else []"}
              THEN StarterReadings(xs) ELSE xs
    IN IF ys = <<>>
       THEN (IF rule \in {"max else 0", "sum else 0", "min else 0"} THEN Some(0)
             ELSE IF rule = "mean else 0" THEN Some(Q(0, 1))
             ELSE None)
       ELSE IF rule \in {"max else 0", "max else None", "starter max else []"}
            THEN Some(MaxOf(ys))
       ELSE IF rule \in {"min else 0", "min else None", "starter min else []"}
            THEN Some(MinOf(ys))
       ELSE IF rule = "sum else 0" THEN Some(SumOf(ys))
       ELSE Some(Q(SumOf(ys), Len(ys)))

\* "Aggregate history data" and the VE.Direct error counters
AggregateHistory(shs, sw) ==
    [p \in HistoryPaths \cup (ErrorCounters \ {"HexChecksumErrors"}) |->
        IF p \in HistoryPaths
        THEN Combine(HistoryRule[p], Readings(shs, sw, p))
        ELSE Some(VedirectCounter(shs, sw, p))]

\* the values the pass computes for the published paths
Aggregate(shs, sw) ==
    LET soc == avg_soc(Readings(shs, sw, "Soc"))
        total_current == TotalCurrent(shs, sw)
    IN
    [Voltage |-> Some(reported_voltage(Readings(shs, sw, "Voltage"),
                                       Readings(shs, sw, "LowVoltage"),
                                       Readings(shs, sw, "HighVoltage"))),
     Current |-> Some(total_current),
     Power |-> Some(SumOf(Readings(shs, sw, "Power"))),
     Temperature |-> reported_temperature(Readings(shs, sw, "Temperature"),
                                          temp_low, temp_high),
     Soc |-> Some(soc),
     ConsumedAmphours |-> Some(SumOf(Readings(shs, sw, "ConsumedAmphours"))),
     TimeToGo |-> time_to_go(total_current,
                             RemainingCapacity(total_capacity, soc)),
     Alarm |-> Some(AlarmOf(Readings(shs, sw, "Alarm"))),
     LowVoltage |-> Some(AlarmOf(Readings(shs, sw, "LowVoltage"))),
     HighVoltage |-> Some(AlarmOf(Readings(shs, sw, "HighVoltage"))),
     LowSoc |-> Some(AlarmOf(Readings(shs, sw, "LowSoc"))),
     HighTemperature |-> Some(AlarmOf(Readings(shs, sw, "HighTemperature"))),
     LowTemperature |-> Some(AlarmOf(Readings(shs, sw, "LowTemperature"))),
     HexChecksumErrors |-> Some(VedirectHexChecksum(shs, sw))]
    @@ AggregateHistory(shs, sw)

\* "with self._dbusservice as bus": the first k paths written
PublishPrefix(old, new, k) ==
    [p \in DOMAIN old |->
        IF \E i \in 1..k : PublishOrder[i] = p THEN new[p] ELSE old[p]]

\* where a pass can fail: nowhere, on a device read in the first loop, on a
\* device read in the second loop, or in the publish block after k paths were
\* written.  Which device's read raises does not change what the code does;
\* the model lets the first one raise.
\* the publish block is followed to a failure of its first write and of its
\* second write
PublishFailPoints == {0, 1}
NoFailure == [stage |-> "none", k |-> 0]
Failures ==
    {NoFailure}
    \cup [stage : {"loop1", "loop2"}, k : {0}]
    \cup [stage : {"publish"}, k : PublishFailPoints]

\* a limit that allows one failure more
ReadTrialsOverByTwo(trials) == trials > READ_TRIALS + 1

\* "if self._readTrials > self.config['READ_TRIALS']"
ReadTrialsExceeded(trials) == trials > READ_TRIALS

\* a pass without the guard
NoUpdateGuard(r) == FALSE

\* the guard of _update
UpdateGuard(r) == r.updating

\* "if ttg is not None and ttg > 0: time_to_go_readings.append(ttg)"
TimeToGoReadings(shs, sw) ==
    SelectSeq(Readings(shs, sw, "TimeToGo"), LAMBDA t : t > 0)

\* "max_shunt_ttg > 0 and (max - min) / max > 0.2"
Diverging(ttgs) ==
    LET min_shunt_ttg == MinOf(ttgs)
        max_shunt_ttg == MaxOf(ttgs)
    IN max_shunt_ttg > 0 /\ 5 * (max_shunt_ttg - min_shunt_ttg) > max_shunt_ttg

\* a warning that does not look at the flag
AnyTime(r) == TRUE

\* "not self._ttg_divergence_logged"
NotLoggedYet(r) == ~r.ttg_divergence_logged

\* "if time_to_go": the estimate is a number other than 0
Truthy(ttg) == ~IsNone(ttg) /\ Val(ttg).n # 0

\* "if time_to_go and time_to_go_readings and not self._ttg_divergence_logged",
\* then the spread test: the warning is logged and the flag set
log_ttg_divergence(r) ==
    IF /\ NotLoggedYet(r)
       /\ LET ttgs == TimeToGoReadings(r.shunts, r.shunt_switches)
          IN ttgs # <<>> /\ Diverging(ttgs)
       /\ Truthy(time_to_go(
              TotalCurrent(r.shunts, r.shunt_switches),
              RemainingCapacity(
                  total_capacity,
                  avg_soc(Readings(r.shunts, r.shunt_switches, "Soc")))))
    THEN [r EXCEPT !.ttg_divergence_logged = TRUE,
                   !.ttg_warnings = Min(@ + 1, 2)]
    ELSE r

\* a pass that is not run
SkipPass(r, f) == r

Update(r, f) ==
    IF UpdateGuard(r) THEN [r EXCEPT !.ret = "stop", !.lastPass = "dropped"]
    ELSE
    LET inc == ReadShunts(r.shunts, r.shunt_switches)
        agg == Aggregate(r.shunts, r.shunt_switches)
        logged == log_ttg_divergence(r)
    IN
    IF f.stage = "loop1" /\ inc # <<>> THEN
        \* except Exception: count the failure, clear the flag, maybe exit
        IF ReadTrialsExceeded(r.readTrials + 1)
        THEN [r EXCEPT !.readTrials = @ + 1, !.updating = FALSE,
                       !.exitReason = "read", !.ret = "exit",
                       !.failed_passes = @ + 1, !.lastFail = "loop1",
                       !.lastPass = "read_fail", !.readLog = {Head(inc)}]
        ELSE [r EXCEPT !.readTrials = @ + 1, !.updating = FALSE, !.ret = "stop",
                       !.failed_passes = @ + 1, !.lastFail = "loop1",
                       !.lastPass = "read_fail", !.readLog = {Head(inc)}]
    ELSE IF f.stage = "loop2" /\ inc # <<>> THEN
        \* outside the try: the exception leaves _update, the flag stays set
        [logged EXCEPT !.readTrials = 1, !.updating = TRUE, !.ret = "raise",
                  !.failed_passes = 0, !.lastFail = "loop2",
                  !.lastPass = "raised", !.readLog = Range(inc)]
    ELSE IF f.stage = "publish" THEN
        [logged EXCEPT !.readTrials = 1, !.updating = TRUE, !.ret = "raise",
                  !.failed_passes = 0, !.lastFail = "publish",
                  !.published = PublishPrefix(r.published, agg, f.k),
                  !.lastPass = "raised", !.readLog = Range(inc)]
    ELSE
        [logged EXCEPT !.readTrials = 1, !.updating = FALSE, !.ret = "stop",
                  !.failed_passes = 0,
                  !.published = agg,
                  !.lastPass = "ok", !.readLog = Range(inc)]

(***************************************************************************)
(* Discovery: _create_shunt_switch, _update_device_paths, _find_smartshunts *)
(***************************************************************************)
\* GLib.timeout_add_seconds(interval, self._find_smartshunts)
Timer(interval) == [rem |-> interval, per |-> interval]
timeout_add_seconds(r, interval) ==
    [r EXCEPT !.timers = @ (+) SetToBag({Timer(interval)}), !.armed = interval]

\* "1 if self.discovery_enabled else 0"
ShowValue(enabled) == IF enabled THEN 1 ELSE 0

create_shunt_switch(r, s) ==
    IF s \in DOMAIN r.shunt_switches THEN r
    ELSE LET persisted == get_shunt_enabled_setting(r, s)
             enabled == IF IsNone(persisted) THEN TRUE ELSE Val(persisted)
             sw == [x \in DOMAIN r.shunt_switches \cup {s} |->
                      IF x = s
                      THEN [relay_id |-> r.next_relay_id, enabled |-> enabled]
                      ELSE r.shunt_switches[x]]
             show_ui == ShowValue(r.discovery_enabled)
         IN set_shunt_enabled_setting(
                [r EXCEPT !.shunt_switches = sw, !.next_relay_id = @ + 1,
                          !.ShowUIControl.relay = Append(@, show_ui)],
                s, enabled)

\* "for shunt in found_shunts: if service_name not in self.shunt_switches: ..."
RECURSIVE CreateSwitches(_, _)
CreateSwitches(r, fnd) ==
    IF fnd = <<>> THEN r
    ELSE CreateSwitches(create_shunt_switch(r, Head(fnd)), Tail(fnd))

\* /Devices/<instance>/*: cleared for the instances no longer in the list,
\* created and filled for those in it
update_device_paths(r, fnd) ==
    LET current == {DeviceInstance(s) : s \in Range(fnd)}
        gone == r.device_paths \ current
    IN [r EXCEPT
          !.device_paths = (@ \ gone) \cup current,
          !.devRecord = [i \in Instances |->
                           IF i \in current THEN "filled"
                           ELSE IF i \in gone THEN "cleared"
                           ELSE @[i]]]

\* "if self._shunts and len(found_shunts) != len(self._shunts)"
DeviceCountChanged(r, fnd) == r.shunts # <<>> /\ Len(fnd) # Len(r.shunts)

\* "if not self._shunts or len(found_shunts) != self._last_device_count"
NewDeviceSet(r, fnd) == r.shunts = <<>> \/ Len(fnd) # r.last_device_count

\* "if self._devices_stable_since and (tt.time() - ...) >= 30"
StableLongEnough(r) == r.stable_age # NoAge /\ r.stable_age >= StableWindow

\* a backoff without the cap
Doubled(interval) == interval * 2

\* a step that shortens the interval
Halved(interval) == interval \div 2

\* min(self._device_search_interval * 2, self._max_search_interval)
BackedOff(interval) == Min(interval * 2, MaxInterval)

\* a zero-device branch that allows one trial more
TrialsUpToLimit(r) == r.searchTrials <= SEARCH_TRIALS

\* a zero-device branch that gives up one scan early
OneTrialLess(r) == r.searchTrials < SEARCH_TRIALS - 1

\* the zero-device branch: "elif self._searchTrials < SEARCH_TRIALS"
MoreTrials(r) == r.searchTrials < SEARCH_TRIALS

\* a gate that is never closed
NeverOff(r) == FALSE

\* "if not self.discovery_enabled"
DiscoveryOff(r) == ~r.discovery_enabled

find_smartshunts(r, fnd, f) ==
    IF DiscoveryOff(r) THEN
        [timeout_add_seconds(r, r.device_search_interval)
            EXCEPT !.ret = "stop", !.lastOp = "scan_skipped"]
    ELSE
    LET r0 == [r EXCEPT !.lastOp = "scan", !.found_shunts = fnd,
                        !.zero_scans = IF Len(fnd) = 0
                                       THEN Min(@ + 1, SEARCH_TRIALS + 1) ELSE @]
        r1 == IF DeviceCountChanged(r0, fnd)
              THEN [r0 EXCEPT !.device_search_interval = InitialInterval,
                              !.stable_age = NoAge]
              ELSE r0
    IN
    IF Len(fnd) > 0 THEN
        IF NewDeviceSet(r1, fnd) THEN
            LET r2 == [r1 EXCEPT !.shunts = fnd, !.last_device_count = Len(fnd)]
                r3 == update_device_paths(CreateSwitches(r2, fnd), fnd)
                r4 == Update([r3 EXCEPT !.stable_age = 0], f)
            IN IF r4.ret \in {"raise", "exit"} THEN r4
               ELSE [timeout_add_seconds(r4, r4.device_search_interval) EXCEPT
                       !.logTimers = IF LOG_PERIOD > 0 THEN @ + 1 ELSE @,
                       !.ret = "stop"]
        ELSE
            LET r2 == IF StableLongEnough(r1)
                      THEN [r1 EXCEPT !.device_search_interval = BackedOff(@),
                                      !.stable_age = 0]
                      ELSE r1
            IN [timeout_add_seconds(r2, r2.device_search_interval) EXCEPT
                  !.ret = "stop"]
    ELSE IF MoreTrials(r1) THEN
        [r1 EXCEPT !.searchTrials = @ + 1, !.ret = "repeat"]
    ELSE
        [r1 EXCEPT !.exitReason = "search", !.ret = "exit"]

\* the scan a callback makes on the bus as it is
Scan(r, f) == find_smartshunts(r, FoundShunts, f)

\* the failures a pass started in r can meet, and those a scan can meet
PassFailures(r) == IF UpdateGuard(r) THEN {NoFailure} ELSE Failures
ScanFailures(r) ==
    IF r.discovery_enabled /\ FoundShunts # <<>> /\ NewDeviceSet(r, FoundShunts)
    THEN PassFailures(r) ELSE {NoFailure}

(***************************************************************************)
(* Switch callbacks                                                        *)
(***************************************************************************)
\* self._update_values(): the class has no such method, the call raises
\* AttributeError
update_values(r) == [r EXCEPT !.ret = "raise"]

on_shunt_switch_changed(r, s, new_enabled) ==
    LET r0 == [r EXCEPT !.lastOp = "switch"] IN
    IF s \in DOMAIN r0.shunt_switches
       /\ r0.shunt_switches[s].enabled # new_enabled
    THEN LET r1 == set_shunt_enabled_setting(
                      [r0 EXCEPT !.shunt_switches[s].enabled = new_enabled],
                      s, new_enabled)
         IN IF ~r1.updating THEN update_values(r1) ELSE r1
    ELSE r0

on_discovery_changed(r, new_enabled) ==
    LET r0 == [r EXCEPT !.lastOp = "discovery",
                        !.savedDiscovery = IF r.settings_loaded
                                           THEN (IF new_enabled THEN 1 ELSE 0)
                                           ELSE @]
    IN IF r0.discovery_enabled # new_enabled
       THEN [r0 EXCEPT
               !.discovery_enabled = new_enabled,
               !.ShowUIControl =
                   [@ EXCEPT !.relay = [i \in DOMAIN @ |-> ShowValue(new_enabled)],
                             !.relay_temp_low = ShowValue(new_enabled),
                             !.relay_temp_high = ShowValue(new_enabled)]]
       ELSE r0

\* "aggregate_shunts" in dbusServiceName, a service name being the sequence
\* of its dot-separated parts
NamesAggregateShunts(s) == \E i \in DOMAIN s : s[i] = "aggregate_shunts"

\* _on_value_changed: GLib.idle_add(self._update) for a trigger path
on_value_changed(r, s, path) ==
    LET r0 == [r EXCEPT !.lastOp = "value"] IN
    IF NamesAggregateShunts(s) THEN r0
    ELSE IF path \in TriggerPaths /\ r0.shunts # <<>> /\ ~r0.updating
    THEN [r0 EXCEPT !.idle = @ + 1]
    ELSE r0

(***************************************************************************)
(* Temperature thresholds                                                  *)
(***************************************************************************)
\* linear mapping of a temperature (-50..100) to a slider position (1..100)
temp_to_slider(temp) ==
    QAdd(Q(1, 1),
         QMul(QDiv(QSub(temp, Q(TEMP_MIN, 1)), Q(TEMP_MAX - TEMP_MIN, 1)),
              Q(99, 1)))

\* a mapping that takes position 0, not 1, to the lowest temperature
FromZero(slider) ==
    QAdd(Q(TEMP_MIN, 1),
         QMul(QDiv(slider, Q(100, 1)), Q(TEMP_MAX - TEMP_MIN, 1)))

slider_to_temp(slider) ==
    QAdd(Q(TEMP_MIN, 1),
         QMul(QDiv(QSub(slider, Q(1, 1)), Q(99, 1)), Q(TEMP_MAX - TEMP_MIN, 1)))

default_temp_low_slider == temp_to_slider(DEFAULT_TEMP_LOW)
default_temp_high_slider == temp_to_slider(DEFAULT_TEMP_HIGH)

\* _on_temp_low_changed: value is the slider position, None reads as 40.4
on_temp_low_changed(r, value) ==
    LET slider_value == IF IsNone(value) THEN Q(404, 10) ELSE Val(value)
    IN [r EXCEPT !.lastOp = "temp_low",
                 !.dimming_low = value,
                 !.temp_low = slider_to_temp(slider_value),
                 !.savedTempLow = IF r.settings_loaded
                                  THEN Q(QInt(slider_value), 1) ELSE @]

\* _on_temp_high_changed: None reads as 57.35
on_temp_high_changed(r, value) ==
    LET slider_value == IF IsNone(value) THEN Q(5735, 100) ELSE Val(value)
    IN [r EXCEPT !.lastOp = "temp_high",
                 !.dimming_high = value,
                 !.temp_high = slider_to_temp(slider_value),
                 !.savedTempHigh = IF r.settings_loaded
                                   THEN Q(QInt(slider_value), 1) ELSE @]

\* _on_temp_low_state_changed: switching the control off resets it
on_temp_low_state_changed(r, new_state) ==
    IF ~new_state
    THEN [r EXCEPT !.lastOp = "temp_low_state",
                   !.dimming_low = Some(default_temp_low_slider),
                   !.temp_low = DEFAULT_TEMP_LOW]
    ELSE [r EXCEPT !.lastOp = "temp_low_state"]

\* _on_temp_high_state_changed
on_temp_high_state_changed(r, new_state) ==
    IF ~new_state
    THEN [r EXCEPT !.lastOp = "temp_high_state",
                   !.dimming_high = Some(default_temp_high_slider),
                   !.temp_high = DEFAULT_TEMP_HIGH]
    ELSE [r EXCEPT !.lastOp = "temp_high_state"]

\* register(): _register_device_settings restores the discovery switch and
\* the thresholds from the saved settings, then the scan timer is started
register(r) ==
    timeout_add_seconds(
        [r EXCEPT !.settings_loaded = TRUE,
                  !.discovery_enabled = (r.savedDiscovery # 0),
                  !.ShowUIControl = IF r.savedDiscovery # 0 THEN @
                                    ELSE [@ EXCEPT !.relay_temp_low = 0,
                                                   !.relay_temp_high = 0],
                  !.dimming_low = IF r.savedTempLow # default_temp_low_slider
                                  THEN Some(r.savedTempLow) ELSE @,
                  !.temp_low = IF r.savedTempLow # default_temp_low_slider
                               THEN slider_to_temp(r.savedTempLow) ELSE @,
                  !.dimming_high = IF r.savedTempHigh # default_temp_high_slider
                                   THEN Some(r.savedTempHigh) ELSE @,
                  !.temp_high = IF r.savedTempHigh # default_temp_high_slider
                                THEN slider_to_temp(r.savedTempHigh) ELSE @],
        InitialInterval)

(***************************************************************************)
(* main(): the total capacity, read from the configuration registers       *)
(***************************************************************************)
\* what GetVreg(0x1000) can give: nothing (an error, or no data), one byte,
\* or two bytes, low byte first: 0, 100 or 300 Ah
AllVregReplies == {<<>>, <<100>>, <<0, 0>>, <<100, 0>>, <<44, 1>>}
\* the replies the model of the whole service follows: unreadable, or 100 Ah
VregReplies == {<<>>, <<100, 0>>}

\* struct.unpack('<H', data[:2])[0]
Unpack16LE(data) == data[1] + 256 * data[2]

\* SmartShuntConfig.read_all: "if data and len(data) >= 2: self.capacity = ..."
read_capacity(data) ==
    IF data # <<>> /\ Len(data) >= 2 THEN Some(Unpack16LE(data)) ELSE None

\* sum(capacities), the capacities appended in bus order
SumReadable(caps, order) ==
    SumOf([i \in 1..Len(order) |->
             IF IsNone(caps[order[i]]) THEN 0 ELSE Val(caps[order[i]])])

\* a start that tolerates unreadable registers
NoneUnreadable(caps) == FALSE

\* "if config_reader.capacity is not None: ... else: raise ValueError"
SomeUnreadable(caps) == \E s \in DOMAIN caps : IsNone(caps[s])

\* caps is config_reader.capacity of every SmartShunt main() found
read_total_capacity(r, caps) ==
    LET r0 == [r EXCEPT !.lastOp = "capacity", !.lastCaps = caps]
        quit == [r0 EXCEPT !.exitReason = "capacity", !.ret = "exit"]
        order == SelectSeq(BusOrder, LAMBDA s : s \in DOMAIN caps)
        total == SumReadable(caps, order)
    IN IF DOMAIN caps = {} THEN quit
       ELSE IF SomeUnreadable(caps) THEN quit
       ELSE IF total > 0 THEN [r0 EXCEPT !.total_capacity = total]
       ELSE quit

(***************************************************************************)
(* Initial state: the object as __init__ leaves it, before main()'s first  *)
(* synchronous scan                                                        *)
(***************************************************************************)
\* the per-device settings a start can find: none yet, or the first device
\* switched off in an earlier run
SavedAtStart ==
    {[k \in SettingKeys |-> None],
     [k \in SettingKeys |->
        IF k = get_shunt_setting_key(Svc1) THEN Some(FALSE) ELSE None]}

Init ==
    /\ present \in SUBSET Services
    /\ savedDiscovery \in {0, 1}
    /\ savedEnabled \in SavedAtStart
    /\ savedTempLow = default_temp_low_slider
    /\ savedTempHigh = default_temp_high_slider
    /\ reading = Scenario
    /\ total_capacity = 0
    /\ temp_low = DEFAULT_TEMP_LOW
    /\ temp_high = DEFAULT_TEMP_HIGH
    /\ dimming_low = Some(default_temp_low_slider)
    /\ dimming_high = Some(default_temp_high_slider)
    /\ pc = "capacity"
    /\ wait_count = 1
    /\ exitReason = "none"
    /\ shunts = <<>>
    /\ searchTrials = 1
    /\ readTrials = 1
    /\ updating = FALSE
    /\ device_search_interval = InitialInterval
    /\ stable_age = NoAge
    /\ last_device_count = 0
    /\ discovery_enabled = TRUE
    /\ shunt_switches = <<>>
    /\ next_relay_id = 1
    /\ device_paths = {}
    /\ devRecord = [i \in Instances |-> "none"]
    /\ published = [p \in Range(PublishOrder) |-> None]
    /\ settings_loaded = FALSE
    /\ timers = EmptyBag
    /\ logTimers = 0
    /\ idle = 0
    /\ lastOp = "init"
    /\ lastPass = "none"
    /\ readLog = {}
    /\ found_shunts = <<>>
    /\ armed = 0
    /\ ret = "stop"
    /\ lastFail = "none"
    /\ lastCaps = <<>>
    /\ failed_passes = 0
    /\ ttg_divergence_logged = FALSE
    /\ ttg_warnings = 0
    /\ zero_scans = 0
    /\ ShowUIControl = ControlsCreated
    /\ events = 0

Alive == exitReason = "none"


\* the failure f was met by the callback that ended in r (a callback that
\* makes no pass, or whose pass is dropped, meets none)
Met(r, f) == (f = NoFailure) <=> (r.lastPass \notin {"read_fail", "raised"})

\* a callback's result becomes the next state; a sys.exit ends the process
Finish(r, nextpc) ==
    /\ WithinCaps(r)
    /\ Commit(r)
    /\ pc' = IF r.exitReason # "none" THEN "exited" ELSE nextpc

\* main() does not catch what a synchronous call raises: the process dies
Uncaught(r) == IF r.ret = "raise" THEN [r EXCEPT !.exitReason = "crash"] ELSE r

(***************************************************************************)
(* main(): startup                                                         *)
(***************************************************************************)
\* the capacity registers of the SmartShunts on the bus are read and summed
ReadCapacities(replies) ==
    /\ pc = "capacity"
    /\ \E regs \in [present -> replies] :
         Finish(read_total_capacity(Prog,
                    [s \in present |-> read_capacity(regs[s])]),
                "initial_scan")
    /\ UNCHANGED <<present, reading, wait_count>>

StartupCapacity == ReadCapacities(VregReplies)

\* "service._find_smartshunts()" after the first second
StartupInitialScan ==
    /\ pc = "initial_scan"
    /\ \E f \in ScanFailures(Prog) :
         LET r == Uncaught(Scan(Prog, f))
         IN Met(r, f) /\ Finish(r, "waiting")
    /\ UNCHANGED <<present, reading, wait_count>>

\* one turn of "while len(service._shunts) == 0 and wait_count < max_wait"
StartupWait ==
    /\ pc = "waiting"
    /\ Len(shunts) = 0 /\ wait_count < max_wait
    /\ wait_count' = wait_count + 1
    /\ IF (wait_count + 1) % StartupScanEvery = 0
       THEN \E f \in ScanFailures(Prog) :
              LET r == Uncaught(Scan(Prog, f))
              IN Met(r, f) /\ Finish(r, "waiting")
       ELSE Finish(Prog, "waiting")
    /\ UNCHANGED <<present, reading>>

\* after the loop: give up, or make the initial aggregation and enter the loop
StartupDone ==
    /\ pc = "waiting"
    /\ ~(Len(shunts) = 0 /\ wait_count < max_wait)
    /\ IF Len(shunts) = 0
       THEN Finish([Prog EXCEPT !.exitReason = "startup"],
                   "exited")
       ELSE \E f \in PassFailures(Prog) :
              LET r == Uncaught(Update(Prog, f))
              IN Met(r, f) /\ Finish(r, "registering")
    /\ UNCHANGED <<present, reading, wait_count>>

\* do_registration, the first idle callback of the main loop
Register ==
    /\ pc = "registering"
    /\ Finish(register(Prog), "running")
    /\ UNCHANGED <<present, reading, wait_count>>

(***************************************************************************)
(* The main loop's callbacks                                               *)
(***************************************************************************)
\* the timers as they stand after d seconds, and the age of
\* _devices_stable_since then (ages beyond the window are alike)
Elapse(r, d) ==
    [r EXCEPT
       !.timers = LET later == {[rem |-> t.rem - d, per |-> t.per] :
                                   t \in BagToSet(r.timers)}
                  IN [e \in later |->
                        CopiesIn([rem |-> e.rem + d, per |-> e.per], r.timers)],
       !.stable_age = IF @ = NoAge THEN NoAge ELSE Min(StableWindow, @ + d)]

\* time passes until the next scan timer is due, and GLib calls
\* _find_smartshunts; a callback that returns True keeps its source
ScanTick ==
    /\ pc = "running"
    /\ \E t \in BagToSet(timers), f \in ScanFailures(Prog) :
         /\ \A u \in BagToSet(timers) : t.rem <= u.rem
         /\ LET r0 == Elapse(Prog, t.rem)
                r1 == [r0 EXCEPT !.timers = @ (-) SetToBag({[rem |-> 0, per |-> t.per]})]
                r == Scan(r1, f)
            IN /\ Met(r, f)
               /\ Finish(IF r.ret = "repeat"
                         THEN timeout_add_seconds(r, t.per)
                         ELSE r,
                         "running")
    /\ UNCHANGED <<present, reading, wait_count>>

\* GLib runs a queued self._update
IdleUpdate ==
    /\ pc = "running"
    /\ idle > 0
    /\ \E f \in PassFailures(Prog) :
         LET r == Update([Prog EXCEPT !.idle = @ - 1], f)
         IN Met(r, f) /\ Finish(r, "running")
    /\ UNCHANGED <<present, reading, wait_count>>

\* the monitor reports a change of /Dc/0/Current of a present service and
\* calls _on_value_changed; the model keeps the readings themselves fixed
ValueChanged ==
    /\ pc \in {"registering", "running"}
    /\ \E s \in present :
         Finish(on_value_changed(Event(Prog), s, "/Dc/0/Current"), pc)
    /\ UNCHANGED <<present, reading, wait_count>>

\* a monitored path that is no trigger (an alarm flag, a history counter)
\* changes; the model does not keep its value
OtherValueChanged ==
    /\ pc \in {"registering", "running"}
    /\ \E s \in present :
         Finish(on_value_changed(Event(Prog), s, "/Alarms/Alarm"), pc)
    /\ UNCHANGED <<present, reading, wait_count>>

\* a write to /SwitchableOutput/relay_<n>/State
ShuntSwitchChanged ==
    /\ pc = "running"
    /\ \E s \in DOMAIN shunt_switches, new_enabled \in BOOLEAN :
         Finish(on_shunt_switch_changed(Event(Prog), s, new_enabled), "running")
    /\ UNCHANGED <<present, reading, wait_count>>

\* a write to /SwitchableOutput/relay_discovery/State
DiscoveryChanged ==
    /\ pc = "running"
    /\ \E new_enabled \in BOOLEAN :
         Finish(on_discovery_changed(Event(Prog), new_enabled), "running")
    /\ UNCHANGED <<present, reading, wait_count>>

\* _periodic_log: reads and logs, changes nothing
PeriodicLog ==
    /\ pc = "running"
    /\ logTimers > 0
    /\ Finish(Prog, "running")
    /\ UNCHANGED <<present, reading, wait_count>>

(***************************************************************************)
(* The bus                                                                 *)
(***************************************************************************)
DeviceAppears ==
    /\ Alive
    /\ \E s \in Services \ present : present' = present \cup {s}
    /\ Finish(Event(Prog), pc)
    /\ UNCHANGED <<reading, wait_count>>

DeviceDisappears ==
    /\ Alive
    /\ \E s \in present : present' = present \ {s}
    /\ Finish(Event(Prog), pc)
    /\ UNCHANGED <<reading, wait_count>>

Next ==
    \/ StartupCapacity
    \/ StartupInitialScan
    \/ StartupWait
    \/ StartupDone
    \/ Register
    \/ ScanTick
    \/ IdleUpdate
    \/ ValueChanged
    \/ OtherValueChanged
    \/ ShuntSwitchChanged
    \/ DiscoveryChanged
    \/ PeriodicLog
    \/ DeviceAppears
    \/ DeviceDisappears

Spec == Init /\ [][Next]_vars

(***************************************************************************)
(* The start of main() alone, over every reply of the capacity registers   *)
(***************************************************************************)
StartupCapacityAny == ReadCapacities(AllVregReplies)

SpecCapacity == Init /\ [][StartupCapacityAny]_vars

(***************************************************************************)
(* The aggregation pass over varied readings: a running service that has   *)
(* discovered both devices, whose readings are drawn from the cases below, *)
(* whose thresholds are written through their controls, and which runs a   *)
(* pass whenever one is queued                                             *)
(***************************************************************************)
Voltages ==
    {None, Some(Q(115, 10)), Some(Q(130, 10)), Some(Q(145, 10)), Some(Q(148, 10))}
Temperatures ==
    {None, Some(Q(-5, 1)), Some(Q(2, 1)), Some(Q(25, 1)), Some(Q(46, 1)),
     Some(Q(50, 1))}
Currents == {None, Some(-5), Some(0), Some(5)}
Socs == {None, Some(Q(50, 1)), Some(Q(80, 1))}
Flags == {None, Some(0), Some(2)}

\* the readings of both devices, one group of paths varied at a time
VoltageCases ==
    {[Scenario EXCEPT ![Svc1].Voltage = c[1], ![Svc1].LowVoltage = c[2],
                      ![Svc1].HighVoltage = c[3],
                      ![Svc2].Voltage = c[4], ![Svc2].LowVoltage = c[5],
                      ![Svc2].HighVoltage = c[6]] :
        c \in Voltages \X Flags \X {Some(0), Some(1)}
              \X Voltages \X Flags \X {Some(0), Some(1)}}
TemperatureCases ==
    {[Scenario EXCEPT ![Svc1].Temperature = c[1], ![Svc2].Temperature = c[2]] :
        c \in Temperatures \X Temperatures}
LiveCases ==
    {[Scenario EXCEPT ![Svc1].Current = c[1], ![Svc1].Soc = c[2],
                      ![Svc1].Power = c[3], ![Svc1].ConsumedAmphours = c[4],
                      ![Svc2].Current = c[5], ![Svc2].Soc = c[6]] :
        c \in Currents \X Socs \X {None, Some(-66)} \X {None, Some(-20)}
              \X Currents \X Socs}
AlarmCases ==
    {[Scenario EXCEPT ![Svc1].Alarm = c[1], ![Svc1].LowSoc = c[2],
                      ![Svc1].HighTemperature = c[3],
                      ![Svc1].LowTemperature = c[4],
                      ![Svc2].Alarm = c[5], ![Svc2].LowSoc = c[6]] :
        c \in Flags \X Flags \X {Some(0), Some(2)} \X {Some(0), Some(1)}
              \X Flags \X {None, Some(1)}}
\* the remaining times the devices estimate: none, zero, 10 h, 9 h, 5 h; with
\* the first device discharging or charging more than the second draws
TimesToGo == {None, Some(0), Some(36000), Some(32400), Some(18000)}
TimeToGoCases ==
    {[Scenario EXCEPT ![Svc1].TimeToGo = c[1], ![Svc2].TimeToGo = c[2],
                      ![Svc1].Current = c[3]] :
        c \in TimesToGo \X TimesToGo \X {Some(-5), Some(5)}}
\* each device with each of the histories
HistoryCases ==
    {[s \in Services |-> h[s] @@ Scenario[s]] :
        h \in [Services -> HistoryProfiles]}
ReadingCases ==
    VoltageCases \cup TemperatureCases \cup LiveCases \cup AlarmCases
        \cup TimeToGoCases \cup HistoryCases

\* the slider positions written to the threshold controls: 30 C, 20 C, or
\* no value
LowSliders == {None, Some(Q(269, 5))}
HighSliders == {None, Some(Q(236, 5))}

InitPass ==
    /\ present = Services
    /\ reading \in ReadingCases
    /\ savedDiscovery = 1
    /\ savedEnabled = [k \in SettingKeys |-> Some(TRUE)]
    /\ savedTempLow = default_temp_low_slider
    /\ savedTempHigh = default_temp_high_slider
    /\ total_capacity = 200
    /\ temp_low = DEFAULT_TEMP_LOW
    /\ temp_high = DEFAULT_TEMP_HIGH
    /\ dimming_low = Some(default_temp_low_slider)
    /\ dimming_high = Some(default_temp_high_slider)
    /\ pc = "running"
    /\ wait_count = 1
    /\ exitReason = "none"
    /\ shunts = BusOrder
    /\ searchTrials = 1
    /\ readTrials = 1
    /\ updating = FALSE
    /\ device_search_interval = InitialInterval
    /\ stable_age = 0
    /\ last_device_count = Len(BusOrder)
    /\ discovery_enabled = TRUE
    /\ shunt_switches = [s \in Services |->
                            [relay_id |-> IF s = Svc1 THEN 1 ELSE 2,
                             enabled |-> TRUE]]
    /\ next_relay_id = 3
    /\ device_paths = Instances
    /\ devRecord = [i \in Instances |-> "filled"]
    /\ published = Aggregate(shunts, shunt_switches)
    /\ settings_loaded = TRUE
    /\ timers = SetToBag({Timer(InitialInterval)})
    /\ logTimers = 1
    /\ idle = 0
    /\ lastOp = "init"
    /\ lastPass = "none"
    /\ readLog = {}
    /\ found_shunts = <<>>
    /\ armed = 0
    /\ ret = "stop"
    /\ lastFail = "none"
    /\ lastCaps = <<>>
    /\ failed_passes = 0
    /\ ttg_divergence_logged = FALSE
    /\ ttg_warnings = 0
    /\ zero_scans = 0
    /\ ShowUIControl = [ControlsCreated EXCEPT !.relay = <<1, 1>>]
    /\ events = 0

\* GLib runs a queued self._update, and every read succeeds
IdlePass ==
    /\ pc = "running"
    /\ idle > 0
    /\ Finish(Update([Prog EXCEPT !.idle = @ - 1], NoFailure), "running")
    /\ UNCHANGED <<present, reading, wait_count>>

\* writes to /SwitchableOutput/relay_temp_low/Dimming and .../State
TempLowChanged ==
    /\ pc = "running"
    /\ \E value \in LowSliders :
         Finish(on_temp_low_changed(Event(Prog), value), "running")
    /\ UNCHANGED <<present, reading, wait_count>>

TempLowStateChanged ==
    /\ pc = "running"
    /\ \E new_state \in BOOLEAN :
         Finish(on_temp_low_state_changed(Event(Prog), new_state), "running")
    /\ UNCHANGED <<present, reading, wait_count>>

\* writes to /SwitchableOutput/relay_temp_high/Dimming and .../State
TempHighChanged ==
    /\ pc = "running"
    /\ \E value \in HighSliders :
         Finish(on_temp_high_changed(Event(Prog), value), "running")
    /\ UNCHANGED <<present, reading, wait_count>>

TempHighStateChanged ==
    /\ pc = "running"
    /\ \E new_state \in BOOLEAN :
         Finish(on_temp_high_state_changed(Event(Prog), new_state), "running")
    /\ UNCHANGED <<present, reading, wait_count>>

NextPass ==
    \/ ValueChanged
    \/ IdlePass
    \/ TempLowChanged
    \/ TempLowStateChanged
    \/ TempHighChanged
    \/ TempHighStateChanged

SpecPass == InitPass /\ [][NextPass]_vars

(***************************************************************************)
(* Passes over remaining-time estimates that change between them           *)
(***************************************************************************)
InitEstimates == InitPass /\ reading \in TimeToGoCases

\* the devices report other remaining times, or another current
EstimatesChange ==
    /\ pc = "running"
    /\ \E rd \in TimeToGoCases : rd # reading /\ reading' = rd
    /\ Finish(Event(Prog), "running")
    /\ UNCHANGED <<present, wait_count>>

NextEstimates ==
    \/ ValueChanged
    \/ IdlePass
    \/ EstimatesChange

SpecEstimates == InitEstimates /\ [][NextEstimates]_vars

(***************************************************************************)
(* Every position of the cold control, and passes over temperatures around *)
(* the thresholds                                                          *)
(***************************************************************************)
LowPositions == {Q(p, 1) : p \in 1..100}
HighPositions == {Q(1, 1), Q(58, 1), Q(100, 1)}
SliderCases ==
    {[Scenario EXCEPT ![Svc1].Temperature = c[1], ![Svc2].Temperature = c[2]] :
        c \in {Some(Q(2, 1)), Some(Q(25, 1))} \X {Some(Q(26, 1)), Some(Q(46, 1))}}

InitSlider == InitPass /\ reading \in SliderCases

SliderLowWritten ==
    /\ pc = "running"
    /\ \E value \in LowPositions :
         Finish(on_temp_low_changed(Event(Prog), Some(value)), "running")
    /\ UNCHANGED <<present, reading, wait_count>>

SliderHighWritten ==
    /\ pc = "running"
    /\ \E value \in HighPositions :
         Finish(on_temp_high_changed(Event(Prog), Some(value)), "running")
    /\ UNCHANGED <<present, reading, wait_count>>

NextSlider ==
    \/ SliderLowWritten
    \/ SliderHighWritten
    \/ TempLowStateChanged
    \/ TempHighStateChanged
    \/ ValueChanged
    \/ IdlePass

SpecSlider == InitSlider /\ [][NextSlider]_vars

(***************************************************************************)
(* The trial counter from the startup scans on, while SmartShunts come and *)
(* go any number of times                                                  *)
(***************************************************************************)
InitTrials ==
    /\ Init
    /\ present = {}
    /\ savedDiscovery = 1
    /\ savedEnabled = [k \in SettingKeys |-> None]

\* main() has read a total capacity of 100 Ah from a SmartShunt that then
\* left the bus
CapacityRead ==
    /\ pc = "capacity"
    /\ Finish([Prog EXCEPT !.total_capacity = 100, !.lastOp = "capacity"],
              "initial_scan")
    /\ UNCHANGED <<present, reading, wait_count>>

ShuntComes ==
    /\ Alive
    /\ pc # "capacity"
    /\ present = {}
    /\ present' = {Svc1}
    /\ Finish(Prog, pc)
    /\ UNCHANGED <<reading, wait_count>>

ShuntGoes ==
    /\ Alive
    /\ present # {}
    /\ present' = {}
    /\ Finish(Prog, pc)
    /\ UNCHANGED <<reading, wait_count>>

NextTrials ==
    \/ CapacityRead
    \/ StartupInitialScan
    \/ StartupWait
    \/ StartupDone
    \/ Register
    \/ ScanTick
    \/ DiscoveryChanged
    \/ ShuntComes
    \/ ShuntGoes

SpecTrials == InitTrials /\ [][NextTrials]_vars

(***************************************************************************)
(* Passes over the histories of the devices, with devices switched off     *)
(***************************************************************************)
InitHistory == InitPass /\ reading \in HistoryCases

NextHistory ==
    \/ ValueChanged
    \/ IdlePass
    \/ ShuntSwitchChanged

SpecHistory == InitHistory /\ [][NextHistory]_vars

(***************************************************************************)
(* Properties                                                              *)
(***************************************************************************)
\* the outcomes of a pass that got past the guard
StartedPass == {"ok", "read_fail", "raised"}

\* the devices of an active set whose manual_enabled flag is true
EnabledOf(shs, sw) ==
    SelectSeq(shs, LAMBDA s : s \notin DOMAIN sw \/ sw[s].enabled)
EnabledShunts == EnabledOf(shunts, shunt_switches)

\* the aggregate of the devices in shs, none of them skipped
AggregateOver(shs) == Aggregate(shs, <<>>)

\* seconds until the next scan timer is due, and the age the stability timer
\* has then
NextDue ==
    CHOOSE d \in {t.rem : t \in BagToSet(timers)} :
        \A t \in BagToSet(timers) : d <= t.rem
AgeAtTick == IF stable_age = NoAge THEN NoAge ELSE stable_age + NextDue

\* C1: single-flight.  A pass triggered while the in-progress flag is set is
\* dropped: it reads no device, publishes nothing, leaves the flag alone and
\* queues nothing; a value notification arriving then queues no pass either.
C1_SingleFlight ==
    [][updating =>
         /\ lastPass' # "none" =>
               /\ lastPass' = "dropped"
               /\ readLog' = {}
               /\ published' = published
               /\ updating'
               /\ idle' <= idle
         /\ lastOp' = "value" => idle' = idle]_vars

\* a trigger was dropped
C1_Witness == lastPass = "dropped" /\ updating /\ readLog = {}

\* C2: every aggregation pass that starts ends with the in-progress flag
\* cleared, whether it publishes, aborts on a read failure in the first loop,
\* or meets a failure in the second loop or in the publish step.
C2_FlagCleared == lastPass \in StartedPass => ~updating

\* C3: a write to a device's switch that changes its manual_enabled flag,
\* made while no pass is in progress, runs one aggregation pass inside the
\* callback; if that pass publishes, the aggregate is that of the new
\* inclusion set.
C3_ToggleRunsPass ==
    [][(/\ lastOp' = "switch"
        /\ ~updating
        /\ \E s \in DOMAIN shunt_switches :
              shunt_switches'[s].enabled # shunt_switches[s].enabled)
       => /\ lastPass' \in StartedPass
          /\ lastPass' = "ok" =>
                published' = AggregateOver(EnabledOf(shunts', shunt_switches'))]_vars

C5_DisabledContributesNothing ==
    /\ lastPass \in StartedPass =>
          \A s \in Range(shunts) :
              (s \in DOMAIN shunt_switches /\ ~shunt_switches[s].enabled)
                  => s \notin readLog
    /\ lastPass = "ok" => published = AggregateOver(EnabledShunts)

\* a pass has published while a device that is present and reporting was
\* switched off, and its values are not in the aggregate
C5_Witness ==
    /\ lastPass = "ok"
    /\ \E s \in Range(shunts) \cap present :
          s \in DOMAIN shunt_switches /\ ~shunt_switches[s].enabled
    /\ published = AggregateOver(EnabledShunts)
    /\ published # AggregateOver(shunts)

\* C6: a scan tick with discovery enabled whose found set differs from the
\* previous active set, in size or in membership, resets the poll interval
\* to the initial value and clears (or restarts) the stability timer.
C6_ResetOnAnyChange ==
    [][(lastOp' = "scan" /\ Range(found_shunts') # Range(shunts))
       => /\ device_search_interval' = InitialInterval
          /\ stable_age' \in {NoAge, 0}]_vars

\* C7: exponential backoff.  On a scan tick that finds the active set
\* unchanged and non-empty, the interval becomes min(2 * interval, maximum)
\* and the stability timer restarts if the set has been stable for 30 s;
\* otherwise the interval stays; it never exceeds the maximum.
C7_Backoff ==
    [][(/\ pc = "running"
        /\ lastOp' = "scan"
        /\ found_shunts' # <<>>
        /\ Range(found_shunts') = Range(shunts))
       => /\ (stable_age # NoAge /\ AgeAtTick >= StableWindow) =>
                /\ device_search_interval' =
                      Min(2 * device_search_interval, MaxInterval)
                /\ stable_age' = 0
          /\ (stable_age # NoAge /\ AgeAtTick < StableWindow) =>
                device_search_interval' = device_search_interval
          /\ device_search_interval' <= MaxInterval]_vars

\* a tick has backed the interval off to the maximum, which is less than
\* twice the interval before, and armed its timer with it
C7_Witness ==
    /\ lastOp = "scan"
    /\ found_shunts = shunts /\ shunts # <<>>
    /\ device_search_interval = MaxInterval
    /\ stable_age = 0
    /\ armed = MaxInterval

\* C8: a scan tick that does not find a device of the active set resets the
\* poll interval, removes the device from the active set and clears its
\* /Devices/<instance>/* record, also when it finds no device at all.
C8_DisappearanceHandled ==
    [][(lastOp' = "scan" /\ Range(shunts) \ Range(found_shunts') # {})
       => /\ device_search_interval' = InitialInterval
          /\ \A s \in Range(shunts) \ Range(found_shunts') :
                /\ s \notin Range(shunts')
                /\ devRecord'[DeviceInstance(s)] = "cleared"]_vars

\* C9: a timer tick that finds no device while the trial counter is below
\* SEARCH_TRIALS adds one to the counter and leaves a timer of the initial
\* interval registered for the next scan.
C9_RetryAtInitialInterval ==
    [][(/\ pc = "running"
        /\ lastOp' = "scan"
        /\ found_shunts' = <<>>
        /\ searchTrials < SEARCH_TRIALS)
       => /\ searchTrials' = searchTrials + 1
          /\ armed' = InitialInterval]_vars

\* C10, as amended: the process takes the discovery exit exactly on a scan
\* that finds no device while the trial counter is at SEARCH_TRIALS; a tick
\* taken while discovery is disabled never ends the process; after an exit
\* nothing runs.  (A scan that installs a new device set runs a pass, and
\* that pass can end the process on its own account.)
C10_DiscoveryExit ==
    [][/\ (exitReason = "none" /\ exitReason' = "search")
          <=> (/\ lastOp' = "scan"
               /\ found_shunts' = <<>>
               /\ searchTrials = SEARCH_TRIALS)
       /\ lastOp' = "scan_skipped" => exitReason' = "none"
       /\ lastOp' = "scan" /\ found_shunts' # <<>> => exitReason' # "search"
       /\ pc # "exited"]_vars

\* the process has left through the discovery exit
C10_Witness ==
    /\ exitReason = "search" /\ pc = "exited"
    /\ lastOp = "scan" /\ found_shunts = <<>>
    /\ searchTrials = SEARCH_TRIALS

\* C10, as stated: no scan that finds at least one device ends the process.
C10_NoExitWhenFound ==
    [][(lastOp' = "scan" /\ found_shunts' # <<>>) => exitReason' = "none"]_vars

\* C11: pass-level read failure.  A pass in which a device read raises, in
\* the first or in the second per-device loop, publishes nothing and raises
\* the consecutive-failure counter by one; a pass that succeeds puts the
\* counter back to its start value.
C11_ReadFailureCounted ==
    [][/\ lastFail' \in {"loop1", "loop2"} =>
             /\ published' = published
             /\ readTrials' = readTrials + 1
       /\ lastPass' = "ok" => readTrials' = 1]_vars

C13_NoUnhandledFault == [][pc = "running" => ret' # "raise"]_vars

(***************************************************************************)
(* The threshold controls across restarts: a registered service without    *)
(* devices, whose two threshold controls are written, and which is stopped *)
(* and started again with the settings it left                            *)
(***************************************************************************)
\* the slider positions written: no value, 54, 53.8 (30 C) and 47.2 (20 C)
SliderPositions == {None, Some(Q(54, 1)), Some(Q(269, 5)), Some(Q(236, 5))}

\* the object as __init__ builds it in a new process that finds the settings
\* r left
Fresh(r) ==
    [Prog EXCEPT
       !.savedDiscovery = r.savedDiscovery, !.savedEnabled = r.savedEnabled,
       !.savedTempLow = r.savedTempLow, !.savedTempHigh = r.savedTempHigh,
       !.events = r.events,
       !.exitReason = "none", !.total_capacity = 0,
       !.temp_low = DEFAULT_TEMP_LOW, !.temp_high = DEFAULT_TEMP_HIGH,
       !.dimming_low = Some(default_temp_low_slider),
       !.dimming_high = Some(default_temp_high_slider),
       !.shunts = <<>>, !.searchTrials = 1, !.readTrials = 1,
       !.updating = FALSE, !.device_search_interval = InitialInterval,
       !.stable_age = NoAge, !.last_device_count = 0,
       !.discovery_enabled = TRUE, !.shunt_switches = <<>>,
       !.next_relay_id = 1, !.device_paths = {},
       !.devRecord = [i \in Instances |-> "none"],
       !.published = [p \in Range(PublishOrder) |-> None],
       !.settings_loaded = FALSE, !.timers = EmptyBag, !.logTimers = 0,
       !.idle = 0, !.failed_passes = 0,
       !.ttg_divergence_logged = FALSE, !.ttg_warnings = 0,
       !.zero_scans = 0, !.ShowUIControl = ControlsCreated]

\* the process is stopped and started again: __init__, then register()
restart(r) == [register(Fresh(r)) EXCEPT !.lastOp = "restart"]

\* a first start that found no settings, after register()
InitThreshold ==
    /\ present = {}
    /\ savedDiscovery = 1
    /\ savedEnabled = [k \in SettingKeys |-> None]
    /\ savedTempLow = default_temp_low_slider
    /\ savedTempHigh = default_temp_high_slider
    /\ reading = Scenario
    /\ total_capacity = 0
    /\ temp_low = DEFAULT_TEMP_LOW
    /\ temp_high = DEFAULT_TEMP_HIGH
    /\ dimming_low = Some(default_temp_low_slider)
    /\ dimming_high = Some(default_temp_high_slider)
    /\ pc = "running"
    /\ wait_count = 1
    /\ exitReason = "none"
    /\ shunts = <<>>
    /\ searchTrials = 1
    /\ readTrials = 1
    /\ updating = FALSE
    /\ device_search_interval = InitialInterval
    /\ stable_age = NoAge
    /\ last_device_count = 0
    /\ discovery_enabled = TRUE
    /\ shunt_switches = <<>>
    /\ next_relay_id = 1
    /\ device_paths = {}
    /\ devRecord = [i \in Instances |-> "none"]
    /\ published = [p \in Range(PublishOrder) |-> None]
    /\ settings_loaded = TRUE
    /\ timers = SetToBag({Timer(InitialInterval)})
    /\ logTimers = 0
    /\ idle = 0
    /\ lastOp = "init"
    /\ lastPass = "none"
    /\ readLog = {}
    /\ found_shunts = <<>>
    /\ armed = 0
    /\ ret = "stop"
    /\ lastFail = "none"
    /\ lastCaps = <<>>
    /\ failed_passes = 0
    /\ ttg_divergence_logged = FALSE
    /\ ttg_warnings = 0
    /\ zero_scans = 0
    /\ ShowUIControl = ControlsCreated
    /\ events = 0

\* writes to the Dimming and State paths of the two controls
ThresholdLowChanged ==
    /\ pc = "running"
    /\ \E value \in SliderPositions :
         Finish(on_temp_low_changed(Event(Prog), value), "running")
    /\ UNCHANGED <<present, reading, wait_count>>

ThresholdHighChanged ==
    /\ pc = "running"
    /\ \E value \in SliderPositions :
         Finish(on_temp_high_changed(Event(Prog), value), "running")
    /\ UNCHANGED <<present, reading, wait_count>>

RestartService ==
    /\ pc = "running"
    /\ Finish(restart(Prog), "running")
    /\ UNCHANGED <<present, reading, wait_count>>

NextThreshold ==
    \/ ThresholdLowChanged
    \/ TempLowStateChanged
    \/ ThresholdHighChanged
    \/ TempHighStateChanged
    \/ RestartService

SpecThreshold == InitThreshold /\ [][NextThreshold]_vars

(***************************************************************************)
(* The scan over a bus that also holds other battery services: a           *)
(* registered service whose scan timer fires while services come and go    *)
(***************************************************************************)
AllSettingKeys == {get_shunt_setting_key(s) : s \in AllServices}
\* every service shows values; those of the other services are B's
ScenarioAll ==
    [s \in AllServices |-> IF s \in Services THEN Scenario[s] ELSE Scenario[Svc2]]

\* a first start that found no settings, after register(), on any bus
InitScan ==
    /\ present \in SUBSET AllServices
    /\ savedDiscovery = 1
    /\ savedEnabled = [k \in AllSettingKeys |-> None]
    /\ savedTempLow = default_temp_low_slider
    /\ savedTempHigh = default_temp_high_slider
    /\ reading = ScenarioAll
    /\ total_capacity = 0
    /\ temp_low = DEFAULT_TEMP_LOW
    /\ temp_high = DEFAULT_TEMP_HIGH
    /\ dimming_low = Some(default_temp_low_slider)
    /\ dimming_high = Some(default_temp_high_slider)
    /\ pc = "running"
    /\ wait_count = 1
    /\ exitReason = "none"
    /\ shunts = <<>>
    /\ searchTrials = 1
    /\ readTrials = 1
    /\ updating = FALSE
    /\ device_search_interval = InitialInterval
    /\ stable_age = NoAge
    /\ last_device_count = 0
    /\ discovery_enabled = TRUE
    /\ shunt_switches = <<>>
    /\ next_relay_id = 1
    /\ device_paths = {}
    /\ devRecord = [i \in Instances |-> "none"]
    /\ published = [p \in Range(PublishOrder) |-> None]
    /\ settings_loaded = TRUE
    /\ timers = SetToBag({Timer(InitialInterval)})
    /\ logTimers = 0
    /\ idle = 0
    /\ lastOp = "init"
    /\ lastPass = "none"
    /\ readLog = {}
    /\ found_shunts = <<>>
    /\ armed = 0
    /\ ret = "stop"
    /\ lastFail = "none"
    /\ lastCaps = <<>>
    /\ failed_passes = 0
    /\ ttg_divergence_logged = FALSE
    /\ ttg_warnings = 0
    /\ zero_scans = 0
    /\ ShowUIControl = ControlsCreated
    /\ events = 0

ServiceAppears ==
    /\ Alive
    /\ \E s \in AllServices \ present : present' = present \cup {s}
    /\ Finish(Event(Prog), pc)
    /\ UNCHANGED <<reading, wait_count>>

NextScan ==
    \/ ScanTick
    \/ ServiceAppears
    \/ DeviceDisappears

SpecScan == InitScan /\ [][NextScan]_vars

(***************************************************************************)
(* The notifications of the monitor, over every path of its list           *)
(***************************************************************************)
\* the monitor calls _on_value_changed for a path of a service it watches;
\* lastOp keeps the path
ValueNotified ==
    /\ pc = "running"
    /\ \E s \in present \ ignoreServices, path \in MonitoredPaths :
         Finish([on_value_changed(Event(Prog), s, path) EXCEPT !.lastOp = path],
                "running")
    /\ UNCHANGED <<present, reading, wait_count>>

\* one SmartShunt and one battery of another make, each on the bus or not
InitNotify == InitScan /\ present \subseteq {Svc1, SvcBms}

NextNotify ==
    \/ ScanTick
    \/ ValueNotified
    \/ IdleUpdate

SpecNotify == InitNotify /\ [][NextNotify]_vars

(***************************************************************************)
(* The readings a pass combines, stated over sets of devices               *)
(***************************************************************************)
\* the devices of the active set that a pass includes, those of them that
\* show a value on a path, and the values they show
Included == {s \in Range(shunts) : ~SwitchDisabled(shunt_switches, s)}
Showing(path) == {s \in Included : ~IsNone(GetValue(s, path))}
Shown(s, path) == Val(GetValue(s, path))
ValuesOf(path) == {Shown(s, path) : s \in Showing(path)}

\* the least and the greatest of a non-empty set of floats, and the mean of
\* the values some devices show on a path
LeastOf(S) == CHOOSE m \in S : \A x \in S : ~QLess(x, m)
GreatestOf(S) == CHOOSE m \in S : \A x \in S : ~QLess(m, x)
RECURSIVE QSumOver(_, _)
QSumOver(S, path) ==
    IF S = {} THEN Q(0, 1)
    ELSE LET s == CHOOSE x \in S : TRUE
         IN QAdd(Shown(s, path), QSumOver(S \ {s}, path))
MeanOver(path) ==
    QDiv(QSumOver(Showing(path), path), Q(Cardinality(Showing(path)), 1))
RECURSIVE SumOver(_, _)
SumOver(S, path) ==
    IF S = {} THEN 0
    ELSE LET s == CHOOSE x \in S : TRUE
         IN Shown(s, path) + SumOver(S \ {s}, path)

\* some included device raises the flag on an alarm path
Raised(path) == \E s \in Showing(path) : Shown(s, path) # 0

\* the active set in the opposite order
Reversed(shs) == [i \in 1..Len(shs) |-> shs[Len(shs) + 1 - i]]

\* how far a voltage is from the nominal 13.0 V
Deviation(v) == QAbs(QSub(v, Q(13, 1)))

\* C14: voltage selector.  After every successful pass the published voltage
\* is 0 when no included device shows a voltage; else the minimum when only a
\* low-voltage alarm is raised, the maximum when only a high-voltage alarm is
\* raised, the mean when neither is, and with both raised whichever of the
\* minimum and the maximum is farther from 13.0 V; the same voltage results
\* with the devices taken in the opposite order.
C14_VoltageSelector ==
    lastPass = "ok" =>
        LET V == ValuesOf("Voltage")
            low == Raised("LowVoltage")
            high == Raised("HighVoltage")
            v == Val(published.Voltage)
        IN /\ published.Voltage # None
           /\ V = {} => v = Q(0, 1)
           /\ V # {} /\ low /\ ~high => v = LeastOf(V)
           /\ V # {} /\ high /\ ~low => v = GreatestOf(V)
           /\ V # {} /\ ~low /\ ~high => v = MeanOver("Voltage")
           /\ V # {} /\ low /\ high =>
                 /\ v \in {LeastOf(V), GreatestOf(V)}
                 /\ QLess(Deviation(GreatestOf(V)), Deviation(LeastOf(V)))
                       => v = LeastOf(V)
                 /\ QLess(Deviation(LeastOf(V)), Deviation(GreatestOf(V)))
                       => v = GreatestOf(V)
           /\ published.Voltage =
                 Aggregate(Reversed(shunts), shunt_switches).Voltage

\* a pass over readings 11.5 V and 14.8 V with both alarms raised has
\* published 14.8 V
C14_Witness ==
    /\ lastPass = "ok"
    /\ ValuesOf("Voltage") = {Q(115, 10), Q(148, 10)}
    /\ Raised("LowVoltage")
    /\ Raised("HighVoltage")
    /\ published.Voltage = Some(Q(148, 10))

\* how far a temperature is from a fixed reference point
Severity(t, ref) == QAbs(QSub(t, Q(ref, 1)))

\* C15: temperature selector.  After every successful pass, with cold active
\* when the minimum reading is below the cold threshold and hot active when
\* the maximum reading is above the hot threshold (the thresholds as the two
\* controls hold them), the published temperature is absent without
\* readings, the minimum with only cold active, the maximum with only hot
\* active, the mean with neither, and with both the minimum when
\* |min - 0| < |max - 45| and the maximum otherwise.
C15_TemperatureSelector ==
    lastPass = "ok" =>
        LET T == ValuesOf("Temperature")
            lo == LeastOf(T)
            hi == GreatestOf(T)
            cold_active == QLess(lo, temp_low)
            hot_active == QLess(temp_high, hi)
        IN /\ T = {} => published.Temperature = None
           /\ T # {} =>
                published.Temperature =
                    Some(IF cold_active /\ hot_active
                         THEN (IF QLess(Severity(lo, 0), Severity(hi, 45))
                               THEN lo ELSE hi)
                         ELSE IF cold_active THEN lo
                         ELSE IF hot_active THEN hi
                         ELSE MeanOver("Temperature"))

\* with the cold threshold moved off its default, a pass over 2 C and 50 C
\* finds both active and has published the minimum
C15_Witness ==
    /\ lastPass = "ok"
    /\ temp_low # DEFAULT_TEMP_LOW
    /\ ValuesOf("Temperature") = {Q(2, 1), Q(50, 1)}
    /\ QLess(Q(2, 1), temp_low)
    /\ QLess(temp_high, Q(50, 1))
    /\ published.Temperature = Some(Q(2, 1))

\* the summed current and the mean state of charge of the included devices
SummedCurrent == SumOver(Showing("Current"), "Current")
MeanSoc == IF Showing("Soc") = {} THEN Q(50, 1) ELSE MeanOver("Soc")

\* C16: remaining-time estimator.  After every successful pass the published
\* time-to-go is -3600 * (total_capacity * soc / 100) / total_current when
\* the summed current of the included devices is negative, and absent (never
\* a number) when the summed current is zero or positive.
C16_TimeToGo ==
    lastPass = "ok" =>
        /\ SummedCurrent < 0 =>
              published.TimeToGo =
                  Some(QDiv(QMul(Q(-3600, 1),
                                 QDiv(QMul(Q(total_capacity, 1), MeanSoc),
                                      Q(100, 1))),
                            Q(SummedCurrent, 1)))
        /\ SummedCurrent >= 0 => published.TimeToGo = None

\* a pass with summed current -10 A, SoC 50 and capacity 200 Ah has published
\* 36000 s
C16_Witness ==
    /\ lastPass = "ok"
    /\ SummedCurrent = -10
    /\ MeanSoc = Q(50, 1)
    /\ total_capacity = 200
    /\ published.TimeToGo = Some(Q(36000, 1))

\* the greatest flag the included devices show on an alarm path, 0 when none
\* shows one
GreatestFlag(path) ==
    IF Showing(path) = {} THEN 0
    ELSE CHOOSE m \in ValuesOf(path) : \A x \in ValuesOf(path) : x <= m

\* the six published alarm paths
AlarmPaths ==
    {"Alarm", "LowVoltage", "HighVoltage", "LowSoc", "HighTemperature",
     "LowTemperature"}

TwoDeviceScenario ==
    /\ Included = {Svc1, Svc2}
    /\ Included \subseteq present
    /\ reading[Svc1].Voltage = Some(Q(132, 10))
    /\ reading[Svc1].Current = Some(-5)
    /\ reading[Svc1].Soc = Some(Q(80, 1))
    /\ reading[Svc1].Temperature = Some(Q(25, 1))
    /\ reading[Svc2].Voltage = Some(Q(130, 10))
    /\ reading[Svc2].Current = Some(-3)
    /\ reading[Svc2].Soc = Some(Q(70, 1))
    /\ reading[Svc2].Temperature = Some(Q(26, 1))
    /\ \A s \in Services, p \in AlarmPaths : reading[s][p] = Some(0)
    /\ total_capacity = 200

\* C18: end-to-end scenario.  A successful pass over the two devices of the
\* scenario publishes current -8 A, voltage 13.1 V, SoC 75 and time-to-go
\* 67500 s.
C18_Scenario ==
    TwoDeviceScenario /\ lastPass = "ok" =>
        /\ published.Current = Some(-8)
        /\ published.Voltage = Some(Q(131, 10))
        /\ published.Soc = Some(Q(75, 1))
        /\ published.TimeToGo = Some(Q(67500, 1))

\* a pass over the two devices of the scenario has published its time-to-go
C18_Witness ==
    /\ TwoDeviceScenario
    /\ lastPass = "ok"
    /\ published.TimeToGo = Some(Q(3600 * 150, 8))

\* the SmartShunts the start found, those of them whose capacity register
\* could not be read, and the sum of the capacities that could
FoundAtStart == DOMAIN lastCaps
UnreadableAtStart == {s \in FoundAtStart : IsNone(lastCaps[s])}
RECURSIVE CapacitySum(_)
CapacitySum(S) ==
    IF S = {} THEN 0
    ELSE LET s == CHOOSE x \in S : TRUE
         IN Val(lastCaps[s]) + CapacitySum(S \ {s})

\* C19, as amended: the start exits exactly when it finds no SmartShunt, or
\* the capacity of at least one SmartShunt it found is unreadable, or the sum
\* of the capacities is not positive; otherwise the total capacity is the sum
\* of the capacities read from the devices found.
C19_StartupCapacity ==
    lastOp = "capacity" =>
        /\ pc = "exited" <=>
              \/ FoundAtStart = {}
              \/ UnreadableAtStart # {}
              \/ CapacitySum(FoundAtStart \ UnreadableAtStart) <= 0
        /\ pc = "exited" => exitReason = "capacity"
        /\ pc # "exited" =>
              /\ pc = "initial_scan"
              /\ total_capacity = CapacitySum(FoundAtStart)

\* the start found two SmartShunts, read 100 Ah from one and nothing from the
\* other, and has exited
C19_Witness ==
    /\ lastOp = "capacity"
    /\ FoundAtStart = {Svc1, Svc2}
    /\ lastCaps[Svc1] = Some(100)
    /\ lastCaps[Svc2] = None
    /\ pc = "exited"
    /\ exitReason = "capacity"

\* C19, as stated: the start exits exactly when the capacity is unreadable
\* from all the devices; a capacity unreadable on only some of them is not
\* fatal.
C19_ExitOnlyWhenAllUnreadable ==
    lastOp = "capacity" =>
        (pc = "exited" <=> UnreadableAtStart = FoundAtStart)

\* the flag persisted for a device
Persisted(s) == savedEnabled[get_shunt_setting_key(s)]

C21_ThresholdRoundTrip ==
    [][lastOp' = "restart" =>
          /\ dimming_low' = dimming_low
          /\ temp_low' = temp_low
          /\ dimming_high' = dimming_high
          /\ temp_high' = temp_high]_vars

\* C22: self-exclusion.  The active device set never holds the service this
\* program publishes, nor any service that flags itself as a virtual
\* aggregate on /Devices/0/Virtual.
C22_SelfExclusion ==
    \A s \in Range(shunts) : s # SvcSelf /\ VirtualOf(s) # Some(1)


\* C23: after a scan tick with discovery enabled that finds at least one
\* device, the active device set is the set the scan found: every found
\* device is in it and has a per-device switch, and no device the scan did
\* not find remains in it.
C23_ActiveSetIsFound ==
    (lastOp = "scan" /\ found_shunts # <<>>) =>
        /\ Range(shunts) = Range(found_shunts)
        /\ Range(found_shunts) \subseteq DOMAIN shunt_switches


\* C24: backoff liveness.  With discovery enabled and every scan finding the
\* same non-empty set, the poll interval reaches the maximum in the end.  The
\* interval is raised only by a scan that finds the stability timer set and
\* 30 s old, and such a scan sets the timer again; so the interval reaches
\* the maximum exactly if every scan that finds the active set again, with
\* the interval still below the maximum, leaves the stability timer set.
C24_BackoffLiveness ==
    [][(/\ pc = "running"
        /\ lastOp' = "scan"
        /\ found_shunts' # <<>>
        /\ Range(found_shunts') = Range(shunts)
        /\ device_search_interval' < MaxInterval)
       => stable_age' # NoAge]_vars


\* C25: the poll interval never decreases in a scan tick that finds the
\* active device set unchanged; it decreases only in a scan tick whose found
\* set differs from the active set in count or membership, and then it
\* becomes exactly the initial value.
C25_IntervalMonotone ==
    [][/\ (lastOp' = "scan" /\ Range(found_shunts') = Range(shunts))
            => device_search_interval' >= device_search_interval
       /\ device_search_interval' < device_search_interval
            => /\ lastOp' = "scan"
               /\ Range(found_shunts') # Range(shunts)
               /\ device_search_interval' = InitialInterval]_vars

\* a scan tick whose timer had a backed-off period has found the active
\* device gone, and the interval is the initial value again
C25_Witness ==
    /\ lastOp = "scan"
    /\ Range(found_shunts) # Range(shunts)
    /\ armed > InitialInterval
    /\ device_search_interval = InitialInterval


\* C26: a scan enumerates the devices on the bus only after the persisted
\* discovery setting has been restored, and only while that setting is on:
\* with the setting off no device is enumerated, gets a switch or enters
\* the active set.
C26_ScanAfterRestore ==
    /\ lastOp = "scan" => (settings_loaded /\ savedDiscovery # 0)
    /\ (savedDiscovery = 0 /\ ~settings_loaded) =>
          (shunts = <<>> /\ DOMAIN shunt_switches = {})


\* C27: a scan tick that finds discovery_enabled false enumerates nothing,
\* runs no pass and leaves the active set, the switches, the poll interval,
\* the stability timer and the trial counter as they are; it schedules the
\* next tick after the current interval and nothing else.
C27_DisabledScanFrame ==
    [][(~discovery_enabled /\ lastOp' \in {"scan", "scan_skipped"})
       => /\ lastOp' = "scan_skipped"
          /\ found_shunts' = <<>>
          /\ lastPass' = "none" /\ readLog' = {}
          /\ shunts' = shunts
          /\ shunt_switches' = shunt_switches
          /\ next_relay_id' = next_relay_id
          /\ device_search_interval' = device_search_interval
          /\ stable_age' = (IF stable_age = NoAge THEN NoAge
                            ELSE Min(StableWindow, AgeAtTick))
          /\ searchTrials' = searchTrials
          /\ last_device_count' = last_device_count
          /\ published' = published
          /\ idle' = idle
          /\ armed' = device_search_interval
          /\ pc' = pc]_vars

\* a tick has been skipped with devices in the active set, and the next one
\* is armed
C27_Witness ==
    /\ lastOp = "scan_skipped"
    /\ ~discovery_enabled
    /\ shunts # <<>>
    /\ stable_age # NoAge
    /\ armed = device_search_interval


C29_InstallRunsPass ==
    [][(lastOp' = "scan" /\ shunts' # shunts)
       => /\ shunts' = found_shunts'
          /\ ~updating => lastPass' \in StartedPass
          /\ updating => lastPass' = "dropped"]_vars

\* a scan timer has fired, the scan has installed a set of two devices, its
\* pass has published their aggregate and the next scan is armed
C29_Witness ==
    /\ pc = "running"
    /\ lastOp = "scan"
    /\ Len(shunts) = 2 /\ shunts = found_shunts
    /\ lastPass = "ok"
    /\ published = AggregateOver(EnabledShunts)
    /\ armed = device_search_interval


\* C30: a device gets its switch index in the scan that first finds it and
\* keeps it for good; the indexes are 1, 2, ... in the order the devices
\* were first found, so no two devices share one.
C30_SwitchIndex ==
    [][/\ \A s \in DOMAIN shunt_switches :
            /\ s \in DOMAIN shunt_switches'
            /\ shunt_switches'[s].relay_id = shunt_switches[s].relay_id
       /\ {shunt_switches'[s].relay_id : s \in DOMAIN shunt_switches'}
              = 1 .. Cardinality(DOMAIN shunt_switches')
       /\ \A s, t \in DOMAIN shunt_switches' :
              s # t => shunt_switches'[s].relay_id # shunt_switches'[t].relay_id
       /\ \A i, j \in DOMAIN found_shunts' :
              (/\ i < j
               /\ found_shunts'[i] \in DOMAIN shunt_switches' \ DOMAIN shunt_switches
               /\ found_shunts'[j] \in DOMAIN shunt_switches' \ DOMAIN shunt_switches)
              => shunt_switches'[found_shunts'[i]].relay_id
                     < shunt_switches'[found_shunts'[j]].relay_id
       /\ lastOp' = "scan" =>
              Range(found_shunts') \subseteq DOMAIN shunt_switches']_vars


\* C31: the warning about diverging remaining-time estimates is logged at
\* most once in the life of the process, and only together with its flag;
\* the time-to-go a pass publishes is computed from the summed current, the
\* mean state of charge and the total capacity alone, whatever the devices
\* estimate.
C31_DivergenceOnce ==
    /\ ttg_warnings <= 1
    /\ ttg_warnings = 1 <=> ttg_divergence_logged
    /\ lastPass = "ok" =>
          published.TimeToGo =
              IF SummedCurrent < 0
              THEN Some(QDiv(QMul(Q(-3600, 1),
                                  QDiv(QMul(Q(total_capacity, 1), MeanSoc),
                                       Q(100, 1))),
                             Q(SummedCurrent, 1)))
              ELSE None

\* with the warning logged, a pass over estimates of 10 h and 5 h has
\* published the 67500 s that 150 Ah last at 8 A
C31_Witness ==
    /\ lastPass = "ok"
    /\ ttg_warnings = 1
    /\ reading[Svc1].TimeToGo = Some(36000)
    /\ reading[Svc2].TimeToGo = Some(18000)
    /\ SummedCurrent = -8
    /\ published.TimeToGo = Some(Q(67500, 1))


(***************************************************************************)
(* C32: combination of the history fields                                  *)
(***************************************************************************)
\* the least and the greatest of the integers some devices show on a path
LeastShown(S, path) ==
    CHOOSE m \in {Shown(s, path) : s \in S} :
        \A s \in S : m <= Shown(s, path)
GreatestShown(S, path) ==
    CHOOSE m \in {Shown(s, path) : s \in S} :
        \A s \in S : m >= Shown(s, path)

\* the included devices showing a value above zero on a path
ShowingPositive(path) == {s \in Showing(path) : Shown(s, path) > 0}

\* the rule table, with the starter voltages taken over the devices that
\* Reporting(path) gives
HistoryRules(Reporting(_)) ==
    /\ \A p \in {"ChargeCycles", "FullDischarges", "AutomaticSyncs"} :
        published[p] = IF Showing(p) = {} THEN Some(0)
                       ELSE Some(GreatestShown(Showing(p), p))
    /\ \A p \in {"TotalAhDrawn", "ChargedEnergy", "DischargedEnergy",
                 "LastDischarge", "LowVoltageAlarms", "HighVoltageAlarms"}
                    \cup ErrorCounters :
        published[p] = Some(SumOver(Showing(p), p))
    /\ published.MinimumVoltage =
        IF Showing("MinimumVoltage") = {} THEN None
        ELSE Some(LeastShown(Showing("MinimumVoltage"), "MinimumVoltage"))
    /\ \A p \in {"MaximumVoltage", "TimeSinceLastFullCharge"} :
        published[p] = IF Showing(p) = {} THEN None
                       ELSE Some(GreatestShown(Showing(p), p))
    /\ published.DeepestDischarge =
        IF Showing("DeepestDischarge") = {} THEN Some(0)
        ELSE Some(LeastShown(Showing("DeepestDischarge"), "DeepestDischarge"))
    /\ published.AverageDischarge =
        IF Showing("AverageDischarge") = {} THEN Some(Q(0, 1))
        ELSE Some(Q(SumOver(Showing("AverageDischarge"), "AverageDischarge"),
                    Cardinality(Showing("AverageDischarge"))))
    /\ published.MinimumStarterVoltage =
        IF Reporting("MinimumStarterVoltage") = {} THEN None
        ELSE Some(LeastShown(Reporting("MinimumStarterVoltage"),
                             "MinimumStarterVoltage"))
    /\ published.MaximumStarterVoltage =
        IF Reporting("MaximumStarterVoltage") = {} THEN None
        ELSE Some(GreatestShown(Reporting("MaximumStarterVoltage"),
                                "MaximumStarterVoltage"))

\* C32: history rule table.  After every successful pass, over the values the
\* included devices show: charge cycles, full discharges and automatic syncs
\* are the greatest (0 when none); total Ah drawn, charged and discharged
\* energy, last discharge, the low- and high-voltage alarm counts and the six
\* communication-error counters are the sum; minimum voltage is the least and
\* maximum voltage and time since last full charge the greatest (unknown when
\* none); deepest discharge is the least and average discharge the mean (0
\* when none); the starter voltages are the least and the greatest of the
\* values above zero, and unknown when no device shows one above zero.
C32_HistoryRules == lastPass = "ok" => HistoryRules(ShowingPositive)

\* C32 as stated: the starter voltages are the least and the greatest of all
\* the values the included devices show, a zero included.
C32_StarterOverPresent == lastPass = "ok" => HistoryRules(Showing)

\* a pass over a device whose starter voltages read 0 and one whose starter
\* voltages read 118 and 141, while a third field is reported by one only
C32_Witness ==
    /\ lastPass = "ok"
    /\ Included = {Svc1, Svc2}
    /\ reading[Svc1].MinimumStarterVoltage = Some(0)
    /\ reading[Svc2].MinimumStarterVoltage = Some(118)
    /\ published.MinimumStarterVoltage = Some(118)
    /\ published.MaximumStarterVoltage = Some(141)
    /\ published.ChargeCycles # Some(0)
    /\ published.MinimumVoltage # None


(***************************************************************************)
(* C33: the mapping of the threshold controls                              *)
(***************************************************************************)
\* -50 + (p - 1)/99 * 150 for a position p
Mapped(p) == Q(-50 * 99 * p.d + 150 * (p.n - p.d), 99 * p.d)

C34_TimerUniqueness ==
    pc = "running" => BagCardinality(timers) <= 1 /\ logTimers <= 1


\* C35: lifetime trial budget.  The trial counter never decreases, no scan
\* that finds a device and no other step changes it, and it is one more than
\* the number of scans of this process, those of startup included, that were
\* made with discovery enabled and found no device; the process has taken the
\* discovery exit exactly when that number has reached SEARCH_TRIALS, whatever
\* scans that found devices lie between them.
C35_TrialBudget ==
    /\ [](exitReason = "search" <=> zero_scans = SEARCH_TRIALS)
    /\ [](zero_scans <= SEARCH_TRIALS)
    /\ [](searchTrials = Min(1 + zero_scans, SEARCH_TRIALS))
    /\ [][/\ searchTrials' >= searchTrials
          /\ (lastOp' = "scan" /\ found_shunts' # <<>>)
                => searchTrials' = searchTrials /\ exitReason' # "search"
          /\ lastOp' # "scan"
                => searchTrials' = searchTrials /\ zero_scans' = zero_scans]_vars

\* the first startup scan found nothing, a later startup scan found the
\* device, and the second scan without a device after that was the third of
\* the process and has ended it
C35_Witness ==
    /\ pc = "exited"
    /\ exitReason = "search"
    /\ lastOp = "scan"
    /\ wait_count >= StartupScanEvery
    /\ shunts = <<Svc1>>
    /\ settings_loaded
    /\ zero_scans = SEARCH_TRIALS


\* C36: selector range.  After every successful pass, when an included device
\* shows a voltage the published voltage is the least, the greatest or the
\* mean of the voltages shown and lies between the least and the greatest,
\* and when exactly one included device shows a voltage it is that device's
\* voltage, whatever alarm flags are raised; the same holds for the
\* temperature, whatever the thresholds are.
C36_SelectorRange ==
    lastPass = "ok" =>
        \A p \in {"Voltage", "Temperature"} :
            LET S == ValuesOf(p) IN
            /\ Showing(p) # {} =>
                  /\ published[p] # None
                  /\ Val(published[p]) \in {LeastOf(S), GreatestOf(S), MeanOver(p)}
                  /\ ~QLess(Val(published[p]), LeastOf(S))
                  /\ ~QLess(GreatestOf(S), Val(published[p]))
            /\ \A s \in Showing(p) :
                  Showing(p) = {s} => published[p] = Some(Shown(s, p))

\* only the second device shows a voltage, 14.8 V, both voltage alarms are
\* raised, and the pass has published 14.8 V
C36_Witness ==
    /\ lastPass = "ok"
    /\ Showing("Voltage") = {Svc2}
    /\ Raised("LowVoltage")
    /\ Raised("HighVoltage")
    /\ published.Voltage = Some(Q(148, 10))


(***************************************************************************)
(* C37: control visibility                                                 *)
(***************************************************************************)
Visible(control) == control = 1

\* C37: once the service is registered, every per-device control and both
\* temperature-threshold controls are shown exactly when discovery is
\* enabled, and the discovery control is always shown.
C37_ControlVisibility ==
    (settings_loaded /\ pc = "running") =>
        /\ \A i \in DOMAIN ShowUIControl.relay :
              Visible(ShowUIControl.relay[i]) <=> discovery_enabled
        /\ Visible(ShowUIControl.relay_temp_low) <=> discovery_enabled
        /\ Visible(ShowUIControl.relay_temp_high) <=> discovery_enabled
        /\ Visible(ShowUIControl.relay_discovery)

(***************************************************************************)
(* C38: the total capacity is fixed at startup                             *)
(***************************************************************************)
\* the time-to-go of the devices now included, from a total capacity cap
EstimateFrom(cap) ==
    Some(QDiv(QMul(Q(-3600, 1),
                   QDiv(QMul(Q(cap, 1), MeanSoc), Q(100, 1))),
              Q(SummedCurrent, 1)))

\* C38: only the capacity read at startup assigns the total capacity: no
\* scan, device disappearance, discovery toggle or per-device toggle changes
\* it, and every pass of the running service computes the time-to-go from
\* that total, whichever devices are included now.
C38_CapacityFixed ==
    /\ [][lastOp' # "capacity" => total_capacity' = total_capacity]_vars
    /\ []((pc = "running" /\ lastPass = "ok" /\ SummedCurrent < 0)
              => published.TimeToGo = EstimateFrom(total_capacity))

\* 200 Ah were read from two devices at startup; the second has been switched
\* off, and the pass that followed has published 200 Ah * 80 % / 5 A = 115200 s
C38_Witness ==
    /\ pc = "running"
    /\ lastPass = "ok"
    /\ total_capacity = 200
    /\ SwitchDisabled(shunt_switches, Svc2)
    /\ Included = {Svc1}
    /\ SummedCurrent = -5
    /\ published.TimeToGo = Some(Q(115200, 1))

====
